---------------------------- MODULE Spec2Model ----------------------------
(* Model of the svFSGe post-processing scripts:                            *)
(*   - scripts/compare_results.py        (regression comparator, main)     *)
(*   - pulsatile_flow/post_steady_fluid.py (pulsatile pipeline)            *)
(* Residual norms are integers in hundredths (Scale), tolerances are       *)
(* exact fractions <<numerator, denominator>>, timesteps are reported      *)
(* 0-based as in the Python code while sequences are indexed from 1.       *)
EXTENDS Integers, Sequences, FiniteSets, TLC

(***************************************************************************)
(* Bounds of the model                                                     *)
(***************************************************************************)
MaxSteps == 2
MaxSnaps == 3

(***************************************************************************)
(* Generic helpers                                                         *)
(***************************************************************************)
Abs(x) == IF x < 0 THEN -x ELSE x

SetMax(S) == CHOOSE m \in S : \A x \in S : x <= m
SetMin(S) == CHOOSE m \in S : \A x \in S : m <= x

EmptyDict == [n \in {} |-> <<>>]

DictPut(d, k, v) == [n \in (DOMAIN d) \cup {k} |-> IF n = k THEN v ELSE d[n]]

(***************************************************************************)
(* Convergence logs: the JSON documents given to the comparator            *)
(***************************************************************************)
Scale == 100
BaseLen == 1
BaseNorm == 10

FieldNames == {"solid", "fluid"}

\* sorted(...) order of the field names
FieldOrder == <<"fluid", "solid">>

\* n residual norms of one timestep, decreasing to the final norm `last`
Resid(n, last) == [i \in 1..n |-> last + (n - i)]

StepOK(n, last) == [list |-> TRUE, res |-> Resid(n, last)]
StepBase == StepOK(BaseLen, BaseNorm)
StepEmpty == [list |-> TRUE, res |-> <<>>]
StepScalar == [list |-> FALSE, res |-> <<>>]

\* the deviations one timestep of a log may show against the base timestep
StepDeviations ==
    { StepOK(BaseLen + 3, BaseNorm), StepOK(BaseLen, BaseNorm + 2),
      StepOK(BaseLen, 0), StepEmpty, StepScalar }

Baseline(n) == [list |-> TRUE, steps |-> [t \in 1..n |-> StepBase]]
Deviate(n, d, s) ==
    [list |-> TRUE, steps |-> [t \in 1..n |-> IF t = d THEN s ELSE StepBase]]
NotList == [list |-> FALSE, steps |-> <<>>]

StepCounts == 0..MaxSteps

SingleFieldVals ==
    { Baseline(n) : n \in StepCounts }
      \cup { Deviate(n, d, s) : n \in 1..MaxSteps, d \in 1..MaxSteps,
                                s \in StepDeviations }
      \cup { NotList }

SecondFieldVals(n) ==
    { Baseline(m) : m \in StepCounts } \cup { NotList }
      \cup (IF n >= 1
            THEN { Deviate(n, 1, StepOK(BaseLen, BaseNorm + 2)),
                   Deviate(n, 1, StepOK(BaseLen + 3, BaseNorm)) }
            ELSE {})

Entry(name, val) == [name |-> name, val |-> val]

ErrorMappings ==
    { << Entry("solid", v) >> : v \in SingleFieldVals }
      \cup { << Entry("solid", Baseline(n)), Entry("fluid", w) >> :
               n \in StepCounts, w \in SecondFieldVals(MaxSteps) }
      \cup { << Entry("fluid", Deviate(n, 1, StepOK(BaseLen + 3, BaseNorm))),
                Entry("solid", Baseline(n)) >> : n \in 1..MaxSteps }
      \cup { << Entry("fluid", Baseline(n)) >> : n \in 1..MaxSteps }

File(load, shape, errors) == [load |-> load, shape |-> shape, errors |-> errors]

\* the files the two positional arguments may name
Logs ==
    { File("ok", "error", m) : m \in ErrorMappings }
      \cup { File("ok", "convergence", << Entry("solid", Baseline(1)) >>),
             File("ok", "convergence_no_error", <<>>),
             File("ok", "none", <<>>),
             File("ok", "error_not_mapping", <<>>),
             File("not_found", "none", <<>>),
             File("invalid_json", "none", <<>>) }


(***************************************************************************)
(* Command line of the comparator                                          *)
(***************************************************************************)
DefaultIterTolerance == 2
DefaultErrorTolerance == <<1, 10>>

IterTolerances == {DefaultIterTolerance, 3}
ErrorTolerances == {DefaultErrorTolerance, <<1, 5>>}

\* which of --ref-vtu / --test-vtu are given
VtuOptions == {"none", "ref_only", "both"}

(***************************************************************************)
(* State                                                                   *)
(***************************************************************************)
VARIABLES
    pc,          \* position of main() of compare_results.py
    args,        \* parsed command line
    disk,        \* the files the two positional arguments name, once opened
    ref_json,    \* loaded reference document
    test_json,   \* loaded test document
    ref_data,    \* convergence data extracted from the reference
    test_data,   \* convergence data extracted from the test log
    summary,     \* what print_summary printed
    checks,      \* the checks evaluated so far, in order, with their outcome
    norm_evals,  \* the differences the error-norm check compared
    field_warning, \* has the error-norm check printed its field warning
    vtu,         \* the point data of the two snapshot files, once loaded
    report,      \* the exception reported by main, if any
    exit_code    \* return value of main, -1 while it runs

cmpVars == << pc, args, disk, ref_json, test_json, ref_data, test_data, summary,
              checks, norm_evals, field_warning, vtu, report, exit_code >>

VARIABLES
    ppc,              \* position of post_process() of post_steady_fluid.py
    files,            \* the snapshots of the input directory, sorted by name
    start_step,       \* --start-step
    res,              \* the snapshots read by read_res
    geo,              \* ids and coords of get_ids for fluid and interface
    step_i,           \* loop index i of get_results
    post_fluid,       \* extracted series at the centerline keys
    post_interface_time, \* extracted series at the interface keys
    averaged,         \* data_fluid, data_interface, data_interface_time
    wss_mid_all,      \* mean WSS at the mid wall ring per snapshot
    stages,           \* the stages of post_process entered so far
    perr,             \* the exception that ended post_process, if any
    warnings          \* the zero-WSS warnings printed by extract_wss

postVars == << ppc, files, start_step, res, geo, step_i, post_fluid,
               post_interface_time, averaged, wss_mid_all, stages, perr,
               warnings >>

VARIABLES
    mpc,              \* position of main() of post_steady_fluid.py
    plots,            \* the figures saved so far, in order
    overlay,          \* the call of plot_wss_heartbeat_overlay, once made
    merr              \* the exception that ended main after post_process

mainVars == << mpc, plots, overlay, merr >>

VARIABLES
    spc,              \* position of main() of post_fluid.py
    sargs,            \* its parsed command line
    sdir,             \* the files of output_dir and the arrays each holds
    smesh,            \* the points of these files and their interior nodes
    out_dir,          \* args.output once its default is resolved
    sfiles,           \* the files found, in the order they are read
    all_results,      \* the result dict of each file read
    printed,          \* the groups summarize_results printed
    written,          \* the files written so far, in order
    beats,            \* the call of plot_wss_heartbeats, once made
    serr              \* the exception that ended main, if any

sumVars == << spc, sargs, sdir, smesh, out_dir, sfiles, all_results, printed, written,
              beats, serr >>

vars == << cmpVars, postVars, mainVars, sumVars >>

NoJson == File("none", "none", <<>>)

NoDisk == [reference |-> NoJson, test |-> NoJson]

NoData ==
    [raised |-> "none", msg |-> "", time_steps |-> 0, iterations |-> <<>>,
     errors |-> EmptyDict]

NoSummary == [raised |-> "none", iter_lines |-> <<>>, norm_lines |-> <<>>]

NoReport == [exc |-> "none", msg |-> "", steps |-> {}, pairs |-> {}]

NoVtu == [ref |-> EmptyDict, test |-> EmptyDict]

(***************************************************************************)
(* extract_convergence_data                                                *)
(***************************************************************************)
RaiseIn(cd, exc, msg) == [cd EXCEPT !.raised = exc, !.msg = msg]

\* line 85: is the entry of one timestep rejected
InvalidStep(iteration_errors) ==
    ~iteration_errors.list \/ Len(iteration_errors.res) = 0

RECURSIVE ProcessSteps(_, _, _, _)
\* inner loop over the timesteps of one field; t is the 1-based position
ProcessSteps(cd, name, steps, t) ==
    IF t > Len(steps) THEN cd
    ELSE LET iteration_errors == steps[t] IN
         IF InvalidStep(iteration_errors)
         THEN RaiseIn(cd, "ComparisonError", "invalid_error_data")
         ELSE LET its == IF Len(cd.iterations) <= t - 1
                         THEN Append(cd.iterations, Len(iteration_errors.res))
                         ELSE cd.iterations
                  final_error == iteration_errors.res[Len(iteration_errors.res)]
                  cd2 == [cd EXCEPT !.iterations = its,
                                    !.errors[name] = Append(@, final_error)]
              IN ProcessSteps(cd2, name, steps, t + 1)

\* variant: the timestep count of a later field replaces the recorded one
StepCountAdopted(recorded, num_time_steps) == TRUE

\* lines 73-80: the timestep count of one list-valued field against the
\* count recorded so far; TRUE when the field is accepted
StepCountAccepted(recorded, num_time_steps) ==
    recorded = 0 \/ recorded = num_time_steps

RECURSIVE ProcessFields(_, _, _)
\* outer loop over the fields of the error mapping, in document order
ProcessFields(cd, entries, k) ==
    IF cd.raised # "none" \/ k > Len(entries) THEN cd
    ELSE LET e == entries[k] IN
         IF ~e.val.list THEN ProcessFields(cd, entries, k + 1)
         ELSE LET num_time_steps == Len(e.val.steps) IN
              IF ~StepCountAccepted(cd.time_steps, num_time_steps)
              THEN RaiseIn(cd, "ComparisonError", "inconsistent_time_steps")
              ELSE LET cd1 == [cd EXCEPT !.time_steps = num_time_steps,
                                         !.errors = DictPut(@, e.name, <<>>)]
                   IN ProcessFields(ProcessSteps(cd1, e.name, e.val.steps, 1),
                                    entries, k + 1)

\* variant: a document without an error mapping counts as an empty mapping
extract_convergence_data_lenient(data) ==
    IF data.shape \in {"error", "convergence"}
    THEN ProcessFields(NoData, data.errors, 1)
    ELSE NoData

\* lines 40-101
extract_convergence_data(data) ==
    CASE data.shape = "none" ->
           RaiseIn(NoData, "ComparisonError", "no_error_field")
      [] data.shape = "convergence_no_error" ->
           RaiseIn(NoData, "ComparisonError", "missing_field")
      [] data.shape = "error_not_mapping" ->
           RaiseIn(NoData, "AttributeError", "items")
      [] OTHER -> ProcessFields(NoData, data.errors, 1)

(***************************************************************************)
(* Differences of final error norms                                        *)
(***************************************************************************)
\* variant: a zero reference norm is divided by as well
RelDiffNonNegative(ref_err, test_err) ==
    IF ref_err >= 0
    THEN [num |-> Abs(test_err - ref_err), den |-> ref_err]
    ELSE [num |-> Abs(test_err - ref_err), den |-> Scale]

\* lines 180-184 and 301-304: the difference as the fraction num/den;
\* den = Scale stands for the undivided (absolute) difference
RelDiff(ref_err, test_err) ==
    IF ref_err > 0
    THEN [num |-> Abs(test_err - ref_err), den |-> ref_err]
    ELSE [num |-> Abs(test_err - ref_err), den |-> Scale]

\* rel_diff > tolerance, in exact arithmetic
Exceeds(d, tol) == d.num * tol[2] > tol[1] * d.den

NormEval(field, t, ref_err, test_err) ==
    [field |-> field, t |-> t, ref |-> ref_err, test |-> test_err,
     num |-> RelDiff(ref_err, test_err).num,
     den |-> RelDiff(ref_err, test_err).den]

(***************************************************************************)
(* print_summary                                                           *)
(***************************************************************************)
SummaryIterTolerance == 2
SummaryErrorTolerance == <<1, 10>>

RECURSIVE SummaryIterLines(_, _, _, _)
\* lines 283-288; t is 0-based
SummaryIterLines(rd, td, t, acc) ==
    IF acc.raised # "none" \/ t >= td.time_steps THEN acc
    ELSE IF t + 1 > Len(rd.iterations) \/ t + 1 > Len(td.iterations)
         THEN [acc EXCEPT !.raised = "IndexError"]
         ELSE LET diff == td.iterations[t + 1] - rd.iterations[t + 1]
                  line == [t |-> t, test |-> td.iterations[t + 1],
                           ref |-> rd.iterations[t + 1], diff |-> diff,
                           ok |-> Abs(diff) <= SummaryIterTolerance]
              IN SummaryIterLines(rd, td, t + 1,
                     [acc EXCEPT !.iter_lines = Append(@, line)])

RECURSIVE SummaryNormLines(_, _, _, _, _)
\* lines 297-309 for one field; t is 0-based
SummaryNormLines(rd, td, field, t, acc) ==
    IF acc.raised # "none" \/ t >= td.time_steps THEN acc
    ELSE LET ref_errors == IF field \in DOMAIN rd.errors
                           THEN rd.errors[field] ELSE <<>>
             test_errors == td.errors[field]
         IN IF t + 1 > Len(test_errors)
            THEN [acc EXCEPT !.raised = "IndexError"]
            ELSE IF t < Len(ref_errors)
                 THEN LET ev == NormEval(field, t, ref_errors[t + 1],
                                         test_errors[t + 1])
                      IN IF ev.den = 0
                         THEN [acc EXCEPT !.raised = "ZeroDivisionError"]
                         ELSE SummaryNormLines(rd, td, field, t + 1,
                                [acc EXCEPT !.norm_lines = Append(@,
                                   [field |-> field, t |-> t, na |-> FALSE,
                                    ev |-> ev,
                                    ok |-> ~Exceeds(ev, SummaryErrorTolerance)])])
                 ELSE SummaryNormLines(rd, td, field, t + 1,
                        [acc EXCEPT !.norm_lines = Append(@,
                           [field |-> field, t |-> t, na |-> TRUE,
                            ev |-> NormEval(field, t, 0, test_errors[t + 1]),
                            ok |-> FALSE])])

RECURSIVE SummaryFields(_, _, _, _)
\* line 292: the fields of the test log in sorted order
SummaryFields(rd, td, k, acc) ==
    IF acc.raised # "none" \/ k > Len(FieldOrder) THEN acc
    ELSE IF FieldOrder[k] \in DOMAIN td.errors
         THEN SummaryFields(rd, td, k + 1,
                            SummaryNormLines(rd, td, FieldOrder[k], 0, acc))
         ELSE SummaryFields(rd, td, k + 1, acc)

print_summary(rd, td) ==
    SummaryFields(rd, td, 1, SummaryIterLines(rd, td, 0, NoSummary))


(***************************************************************************)
(* The three checks on the convergence data                                *)
(***************************************************************************)
Result(exc, msg, steps, pairs, evals) ==
    [raised |-> exc, msg |-> msg, steps |-> steps, pairs |-> pairs,
     evals |-> evals]

Passed(evals) == Result("none", "", {}, {}, evals)

\* variant: a reference count other than the expected 3 raises as well
compare_time_steps_expected(rd, td) ==
    IF rd.time_steps # td.time_steps \/ rd.time_steps # 3
    THEN Result("ComparisonError", "time_step_mismatch", {}, {}, {})
    ELSE Passed({})

\* lines 104-120
compare_time_steps(rd, td) ==
    IF rd.time_steps # td.time_steps
    THEN Result("ComparisonError", "time_step_mismatch", {}, {}, {})
    ELSE Passed({})

\* variant: the tolerance is off by one
IterViolatesLoose(diff, tolerance) == diff > tolerance + 1

\* line 137: does a difference of iteration counts violate the tolerance
IterViolates(diff, tolerance) == diff > tolerance

\* variant: the check raises at the first timestep beyond the tolerance
compare_iterations_first(rd, td, tolerance) ==
    IF \E t \in 1..rd.time_steps :
           t > Len(rd.iterations) \/ t > Len(td.iterations)
    THEN Result("IndexError", "iterations", {}, {}, {})
    ELSE LET failures ==
               { t - 1 : t \in { u \in 1..rd.time_steps :
                    IterViolates(Abs(td.iterations[u] - rd.iterations[u]),
                                 tolerance) } }
         IN IF failures # {}
            THEN Result("ComparisonError", "iterations",
                        { SetMin(failures) }, {}, {})
            ELSE Passed({})

\* lines 123-148; the failure report carries the 0-based timesteps
compare_iterations(rd, td, tolerance) ==
    IF \E t \in 1..rd.time_steps :
           t > Len(rd.iterations) \/ t > Len(td.iterations)
    THEN Result("IndexError", "iterations", {}, {}, {})
    ELSE LET failures ==
               { t - 1 : t \in { u \in 1..rd.time_steps :
                    IterViolates(Abs(td.iterations[u] - rd.iterations[u]),
                                 tolerance) } }
         IN IF failures # {}
            THEN Result("ComparisonError", "iterations", failures, {}, {})
            ELSE Passed({})

\* lines 164-165: the two logs record different sets of fields, which
\* prints the warning
FieldMismatch(rd, td) == DOMAIN rd.errors # DOMAIN td.errors

\* lines 161-169
ComparedFields(rd, td) ==
    IF DOMAIN rd.errors # DOMAIN td.errors
    THEN (DOMAIN rd.errors) \cap (DOMAIN td.errors)
    ELSE DOMAIN rd.errors

\* variant: two logs with different sets of fields fail the check
compare_error_norms_same_fields(rd, td, rel_tolerance) ==
    IF FieldMismatch(rd, td)
    THEN Result("ComparisonError", "error_norms", {}, {}, {})
    ELSE LET evals == UNION { { NormEval(f, t - 1, rd.errors[f][t],
                                        td.errors[f][t]) :
                                 t \in { u \in 1..rd.time_steps :
                                           /\ u <= Len(rd.errors[f])
                                           /\ u <= Len(td.errors[f]) } } :
                             f \in DOMAIN rd.errors }
             failures == { <<e.field, e.t>> :
                             e \in { x \in evals :
                                       Exceeds(x, rel_tolerance) } }
         IN IF \E f \in DOMAIN rd.errors :
                  \/ rd.time_steps > Len(rd.errors[f])
                  \/ rd.time_steps > Len(td.errors[f])
            THEN Result("IndexError", "error_norms", {}, {}, evals)
            ELSE IF failures # {}
                 THEN Result("ComparisonError", "error_norms", {}, failures,
                             evals)
                 ELSE Passed(evals)

\* lines 151-198; the failure report carries <<field, 0-based timestep>>
compare_error_norms(rd, td, rel_tolerance) ==
    LET fields == ComparedFields(rd, td)
        evals == UNION { { NormEval(f, t - 1, rd.errors[f][t], td.errors[f][t]) :
                             t \in { u \in 1..rd.time_steps :
                                       /\ u <= Len(rd.errors[f])
                                       /\ u <= Len(td.errors[f]) } } :
                         f \in fields }
        failures == { <<e.field, e.t>> :
                        e \in { x \in evals : Exceeds(x, rel_tolerance) } }
    IN IF \E f \in fields : \/ rd.time_steps > Len(rd.errors[f])
                            \/ rd.time_steps > Len(td.errors[f])
       THEN Result("IndexError", "error_norms", {}, {}, evals)
       ELSE IF \E e \in evals : e.den = 0
            THEN Result("ZeroDivisionError", "error_norms", {}, {}, evals)
            ELSE IF failures # {}
                 THEN Result("ComparisonError", "error_norms", {}, failures,
                             evals)
                 ELSE Passed(evals)


(***************************************************************************)
(* The optional field comparison of two snapshot files                     *)
(***************************************************************************)
\* A point value is base + dev * 1e-8 with integers base and dev; reference
\* values lie on the integer grid (dev = 0), so that the criterion
\* |test - ref| <= rtol + rtol * |ref| is exact in integers.
Val(base, dev) == [base |-> base, dev |-> dev]

\* RTOL of lines 210-213 in units of 1e-8, and the order of RTOL.items()
RTOL == [Displacement |-> 1, Velocity |-> 10]
RtolOrder == <<"Displacement", "Velocity">>

PointData(load, data) == [load |-> load, data |-> data]

RefVtus ==
    { PointData("ok", [Displacement |-> <<Val(1, 0), Val(0, 0)>>,
                       Velocity |-> <<Val(2, 0)>>]),
      PointData("ok", [Velocity |-> <<Val(2, 0)>>]),
      PointData("error", EmptyDict) }

TestVtus ==
    { PointData("ok", [Displacement |-> <<Val(1, 0), Val(0, 0)>>,
                       Velocity |-> <<Val(2, 0)>>]),
      PointData("ok", [Displacement |-> <<Val(1, 2), Val(0, 1)>>,
                       Velocity |-> <<Val(2, 30)>>]),
      PointData("ok", [Displacement |-> <<Val(1, 3), Val(0, 0)>>,
                       Velocity |-> <<Val(2, 0)>>]),
      PointData("ok", [Displacement |-> <<Val(1, 0), Val(0, 0)>>,
                       Velocity |-> <<Val(2, 31)>>]),
      PointData("ok", [Displacement |-> <<Val(1, 0), Val(0, 0)>>]),
      PointData("ok", [Velocity |-> <<Val(2, 0)>>]),
      PointData("ok", [Displacement |-> <<Val(1, 0), Val(0, 0), Val(0, 0)>>,
                       Velocity |-> <<Val(2, 0)>>]) }

\* variant: the tolerance is absolute only
CloseAbsolute(a, b, rtol) ==
    /\ a.base = b.base
    /\ Abs(a.dev - b.dev) <= rtol

\* line 249-251 for one element: rel_diff <= 0
Close(a, b, rtol) ==
    /\ a.base = b.base
    /\ Abs(a.dev - b.dev) <= rtol * (1 + Abs(b.base))

\* lines 243-252 for one field, with numpy's broadcasting of a length-1 array
FieldClose(a, b, rtol) ==
    CASE Len(a) = Len(b) -> \A i \in 1..Len(a) : Close(a[i], b[i], rtol)
      [] Len(b) = 1 -> \A i \in 1..Len(a) : Close(a[i], b[1], rtol)
      [] Len(a) = 1 -> \A i \in 1..Len(b) : Close(a[1], b[i], rtol)
      [] OTHER -> FALSE

Broadcastable(a, b) == Len(a) = Len(b) \/ Len(a) = 1 \/ Len(b) = 1

RECURSIVE CompareVtuFields(_, _, _, _)
\* the loop of lines 236-264; failed collects the fields added to msg
CompareVtuFields(ref, test, k, failed) ==
    IF k > Len(RtolOrder)
    THEN IF failed # {}
         THEN Result("ComparisonError", "vtu_fields", {},
                     { <<f, 0>> : f \in failed }, {})
         ELSE Passed({})
    ELSE LET field == RtolOrder[k] IN
         IF field \notin DOMAIN ref
         THEN CompareVtuFields(ref, test, k + 1, failed)
         ELSE IF field \notin DOMAIN test
              THEN Result("ComparisonError", "vtu_missing_field", {},
                          { <<field, 0>> }, {})
              ELSE IF ~Broadcastable(test[field], ref[field])
                   THEN Result("ValueError", "vtu_shape", {}, {}, {})
                   ELSE IF FieldClose(test[field], ref[field], RTOL[field])
                        THEN CompareVtuFields(ref, test, k + 1, failed)
                        ELSE CompareVtuFields(ref, test, k + 1,
                                              failed \cup {field})

\* lines 216-269, on the point data of the two files
compare_vtu(ref_file, test_file) ==
    IF ref_file.load # "ok" \/ test_file.load # "ok"
    THEN Result("ReadError", "vtu_load", {}, {}, {})
    ELSE CompareVtuFields(ref_file.data, test_file.data, 1, {})


(***************************************************************************)
(* main() of compare_results.py                                            *)
(***************************************************************************)
\* variant: main goes on after an exception
PropagateSwallow(r, next) == next

\* the try/except of lines 355-425: an exception ends main
Propagate(r, next) == IF r.raised = "none" THEN next ELSE "done"

\* lines 407-425: both handlers return 1
Handle(r) ==
    IF r.raised = "none"
    THEN UNCHANGED << report, exit_code >>
    ELSE /\ report' = [exc |-> r.raised, msg |-> r.msg, steps |-> r.steps,
                       pairs |-> r.pairs]
         /\ exit_code' = 1

\* load_json, lines 29-37
load_json(file) ==
    CASE file.load = "not_found" ->
           Result("ComparisonError", "file_not_found", {}, {}, {})
      [] file.load = "invalid_json" ->
           Result("ComparisonError", "invalid_json", {}, {}, {})
      [] OTHER -> Passed({})

\* lines 357-358
LoadRef ==
    /\ pc = "load_ref"
    /\ \E file \in Logs :
         LET r == load_json(file) IN
         /\ disk' = [disk EXCEPT !.reference = file]
         /\ ref_json' = IF r.raised = "none" THEN file ELSE ref_json
         /\ pc' = Propagate(r, "load_test")
         /\ Handle(r)
    /\ UNCHANGED << args, test_json, ref_data, test_data, summary, checks,
                    norm_evals, field_warning, vtu >>
    /\ UNCHANGED << postVars, mainVars, sumVars >>

\* lines 360-361
LoadTest ==
    /\ pc = "load_test"
    /\ \E file \in Logs :
         LET r == load_json(file) IN
         /\ disk' = [disk EXCEPT !.test = file]
         /\ test_json' = IF r.raised = "none" THEN file ELSE test_json
         /\ pc' = Propagate(r, "extract")
         /\ Handle(r)
    /\ UNCHANGED << args, ref_json, ref_data, test_data, summary, checks,
                    norm_evals, field_warning, vtu >>
    /\ UNCHANGED << postVars, mainVars, sumVars >>

\* lines 365-366
Extract ==
    /\ pc = "extract"
    /\ LET rd == extract_convergence_data(ref_json)
           td == extract_convergence_data(test_json)
           r == IF rd.raised # "none"
                THEN Result(rd.raised, rd.msg, {}, {}, {})
                ELSE Result(td.raised, td.msg, {}, {}, {})
       IN /\ ref_data' = IF rd.raised = "none" THEN rd ELSE ref_data
          /\ test_data' = IF r.raised = "none" THEN td ELSE test_data
          /\ pc' = Propagate(r, "summary")
          /\ Handle(r)
    /\ UNCHANGED << args, disk, ref_json, test_json, summary, checks, norm_evals,
                    field_warning, vtu >>
    /\ UNCHANGED << postVars, mainVars, sumVars >>

\* line 369
PrintSummary ==
    /\ pc = "summary"
    /\ LET sm == print_summary(ref_data, test_data)
           r == Result(sm.raised, "print_summary", {}, {}, {})
       IN /\ summary' = sm
          /\ pc' = Propagate(r, "time_steps")
          /\ Handle(r)
    /\ UNCHANGED << args, disk, ref_json, test_json, ref_data, test_data, checks,
                    norm_evals, field_warning, vtu >>
    /\ UNCHANGED << postVars, mainVars, sumVars >>

Checked(name, r) == Append(checks, [name |-> name, ok |-> r.raised = "none"])

\* lines 375-377
CheckTimeSteps ==
    /\ pc = "time_steps"
    /\ LET r == compare_time_steps(ref_data, test_data)
       IN /\ checks' = Checked("time_steps", r)
          /\ pc' = Propagate(r, "iterations")
          /\ Handle(r)
    /\ UNCHANGED << args, disk, ref_json, test_json, ref_data, test_data, summary,
                    norm_evals, field_warning, vtu >>
    /\ UNCHANGED << postVars, mainVars, sumVars >>

\* lines 380-382
CheckIterations ==
    /\ pc = "iterations"
    /\ LET r == compare_iterations(ref_data, test_data, args.iter_tolerance)
       IN /\ checks' = Checked("iterations", r)
          /\ pc' = Propagate(r, "error_norms")
          /\ Handle(r)
    /\ UNCHANGED << args, disk, ref_json, test_json, ref_data, test_data, summary,
                    norm_evals, field_warning, vtu >>
    /\ UNCHANGED << postVars, mainVars, sumVars >>

\* lines 385-387
CheckErrorNorms ==
    /\ pc = "error_norms"
    /\ LET r == compare_error_norms(ref_data, test_data, args.error_tolerance)
       IN /\ checks' = Checked("error_norms", r)
          /\ norm_evals' = r.evals
          /\ field_warning' = FieldMismatch(ref_data, test_data)
          /\ pc' = Propagate(r, "vtu")
          /\ Handle(r)
    /\ UNCHANGED << args, disk, ref_json, test_json, ref_data, test_data, summary,
                    vtu >>
    /\ UNCHANGED << postVars, mainVars, sumVars >>

\* lines 390-394: only one of the two snapshot paths is given
CheckVtuArgs ==
    /\ pc = "vtu"
    /\ args.vtu = "ref_only"
    /\ LET r == Result("ComparisonError", "vtu_args", {}, {}, {})
       IN /\ pc' = Propagate(r, "finish")
          /\ Handle(r)
    /\ UNCHANGED << args, disk, ref_json, test_json, ref_data, test_data, summary,
                    checks, norm_evals, field_warning, vtu >>
    /\ UNCHANGED << postVars, mainVars, sumVars >>

\* lines 395-399: both snapshot paths are given
CheckVtu ==
    /\ pc = "vtu"
    /\ args.vtu = "both"
    /\ \E ref_file \in RefVtus, test_file \in TestVtus :
         LET r == compare_vtu(ref_file, test_file) IN
         /\ vtu' = [ref |-> ref_file.data, test |-> test_file.data]
         /\ checks' = Checked("vtu", r)
         /\ pc' = Propagate(r, "finish")
         /\ Handle(r)
    /\ UNCHANGED << args, disk, ref_json, test_json, ref_data, test_data, summary,
                    norm_evals, field_warning >>
    /\ UNCHANGED << postVars, mainVars, sumVars >>

\* line 390: no snapshot path is given
SkipVtu ==
    /\ pc = "vtu"
    /\ args.vtu = "none"
    /\ pc' = "finish"
    /\ UNCHANGED << args, disk, ref_json, test_json, ref_data, test_data, summary,
                    checks, norm_evals, field_warning, vtu, report, exit_code >>
    /\ UNCHANGED << postVars, mainVars, sumVars >>

\* lines 401-405
Finish ==
    /\ pc = "finish"
    /\ pc' = "done"
    /\ exit_code' = 0
    /\ UNCHANGED << args, disk, ref_json, test_json, ref_data, test_data, summary,
                    checks, norm_evals, field_warning, vtu, report >>
    /\ UNCHANGED << postVars, mainVars, sumVars >>


(***************************************************************************)
(* Pulsatile pipeline: mesh points and snapshots                           *)
(***************************************************************************)
\* Points are Cartesian integer triples lying on the x or the y axis of
\* their cross-section; point ids are the positions 1..N in the point array.
Pt(x, y, z) == [x |-> x, y |-> y, z |-> z]

\* a short cylinder of radius 2 and height 2: the centerline, the wall line
\* at angle 0, and the mid wall ring at three of the four angles
MeshPts ==
    << Pt(0, 0, 0), Pt(0, 0, 1), Pt(0, 0, 2),
       Pt(0, 2, 0), Pt(0, 2, 1), Pt(0, 2, 2),
       Pt(2, 0, 1), Pt(0, -2, 1) >>

NPts == Len(MeshPts)

IsqrtMax == 40
ISqrt(sq) == CHOOSE n \in 0..IsqrtMax : n * n = sq

\* np.linalg.norm of one 3-vector
Norm(v) == ISqrt(v[1] * v[1] + v[2] * v[2] + v[3] * v[3])

\* The arrays of a snapshot of level L; absent arrays are not in the domain.
PressureAt(L, p) == L + p - 1
VelocityAt(L, p) == << 3 * (L + (p % 2)), 4 * (L + (p % 2)), 0 >>
WSSAt(L, p) == << 0, 0, L + p >>
TractionAt(L, p) == << 0, 2 * (L + p), 0 >>

AllArrays == {"Pressure", "Velocity", "WSS", "Traction"}

SnapshotOn(mesh, L, names) ==
    [points |-> mesh,
     arrays |-> [n \in names |->
                   [p \in 1..Len(mesh) |->
                      CASE n = "Pressure" -> << PressureAt(L, p) >>
                        [] n = "Velocity" -> VelocityAt(L, p)
                        [] n = "WSS" -> WSSAt(L, p)
                        [] OTHER -> TractionAt(L, p)]]]

Snapshot(L, names) == SnapshotOn(MeshPts, L, names)

Levels == 1..3

Snapshots ==
    { Snapshot(L, AllArrays) : L \in Levels }
      \cup { Snapshot(1, AllArrays \ {"WSS"}),
             Snapshot(1, {"Pressure", "Velocity"}),
             Snapshot(1, AllArrays \ {"Pressure"}) }

RECURSIVE SeqsUpTo(_, _)
\* all sequences over S of length at most n
SeqsUpTo(S, n) ==
    IF n = 0 THEN { <<>> }
    ELSE LET shorter == SeqsUpTo(S, n - 1)
         IN shorter \cup { Append(q, x) : q \in shorter, x \in S }

StartSteps == (0 - 1)..MaxSnaps

\* MeshPts with the centerline node at mid height stored twice
MeshDupCenter == Append(MeshPts, Pt(0, 0, 1))

\* MeshPts with the wall node at 3 o'clock stored twice
MeshDupWall == Append(MeshPts, Pt(2, 0, 1))

\* a cylinder of height 3 without nodes at mid height, with wall nodes at
\* 0 and 3 o'clock only, and with the outlet node of the centerline stored
\* before the inlet node
MeshNoMid ==
    << Pt(0, 0, 3), Pt(0, 0, 0), Pt(0, 2, 0), Pt(0, 2, 3), Pt(2, 0, 3) >>

\* MeshPts with the points stored in the opposite order
MeshReversed == [p \in 1..NPts |-> MeshPts[NPts + 1 - p]]

\* the directories of steady_*.vtu files, in the order of read_res; the
\* snapshots of one directory are on the same mesh, or on two meshes of
\* the same size
Directories ==
    SeqsUpTo(Snapshots, MaxSnaps)
      \cup SeqsUpTo({ Snapshot(1, AllArrays),
                      SnapshotOn(MeshReversed, 2, AllArrays) }, MaxSnaps)
      \cup SeqsUpTo({ SnapshotOn(MeshDupCenter, 1, AllArrays) }, MaxSnaps)
      \cup SeqsUpTo({ SnapshotOn(MeshDupWall, 1, AllArrays) }, MaxSnaps)
      \cup SeqsUpTo({ SnapshotOn(MeshNoMid, 1, AllArrays),
                      SnapshotOn(MeshNoMid, 2, AllArrays \ {"WSS"}),
                      SnapshotOn(MeshNoMid, 1, {"Pressure", "Velocity"}) },
                    MaxSnaps)

(***************************************************************************)
(* xyz2cra and get_ids                                                     *)
(***************************************************************************)
\* lines 33-39; the angle atan2(x, y) mod 2 pi is in units of pi/6 (the
\* hours of a clock face), which the names of the buckets of p_cir use
Angle(x, y) ==
    CASE x = 0 /\ y >= 0 -> 0
      [] x > 0 /\ y = 0 -> 3
      [] x = 0 /\ y < 0 -> 6
      [] OTHER -> 9

Radius(x, y) == ISqrt(x * x + y * y)

\* cylindrical coordinates; the axial coordinate is kept doubled so that
\* h / 2 is an integer
xyz2cra(pt) == << Angle(pt.x, pt.y), Radius(pt.x, pt.y), 2 * pt.z >>

Wild == ":"

\* lines 52-63: the buckets of each axis, name -> coordinate
Buckets(pts_cra, domain) ==
    LET ro == SetMax({ pts_cra[p][2] : p \in DOMAIN pts_cra })
        h2 == SetMax({ pts_cra[p][3] : p \in DOMAIN pts_cra })
    IN IF domain = "fluid"
       THEN << ("0" :> 0), [center |-> 0],
               [start |-> 0, mid |-> h2 \div 2, end |-> h2] >>
       ELSE << ("0" :> 0) @@ ("3" :> 3) @@ ("6" :> 6) @@ ("9" :> 9),
               [wall |-> ro],
               [start |-> 0, mid |-> h2 \div 2, end |-> h2] >>

\* variant: no key with the radial slot as wildcard
LocationsNoRadial(b) ==
    UNION { { <<cn, rn, an>>, <<Wild, rn, an>>, <<cn, rn, Wild>> } :
            cn \in DOMAIN b[1], rn \in DOMAIN b[2], an \in DOMAIN b[3] }

\* lines 66-77: the keys registered for the bucket names
Locations(b) ==
    UNION { { <<cn, rn, an>>, <<Wild, rn, an>>, <<cn, Wild, an>>,
              <<cn, rn, Wild>> } :
            cn \in DOMAIN b[1], rn \in DOMAIN b[2], an \in DOMAIN b[3] }

\* np.isclose on the integer grid: the grid spacing is far above the
\* tolerance 1e-8 + 1e-5 * |b|
IsClose(a, b) == a = b

\* lines 83-84: the points matching all non-wildcard slots of a key
Matching(pts_cra, b, loc) ==
    { p \in DOMAIN pts_cra :
        \A i \in 1..3 : loc[i] # Wild => IsClose(pts_cra[p][i], b[i][loc[i]]) }

RECURSIVE Ascending(_)
\* the members of a set of point ids in ascending order (np.where)
Ascending(S) ==
    IF S = {} THEN <<>>
    ELSE << SetMin(S) >> \o Ascending(S \ {SetMin(S)})

RECURSIVE ArgSort(_, _, _)
\* lines 92-94: the ids S ordered by coordinate dim, ties by id
ArgSort(S, pts_cra, dim) ==
    IF S = {} THEN <<>>
    ELSE LET lo == SetMin({ pts_cra[p][dim] : p \in S })
             first == SetMin({ p \in S : pts_cra[p][dim] = lo })
         IN << first >> \o ArgSort(S \ {first}, pts_cra, dim)

WildDim(loc) == CHOOSE i \in 1..3 : loc[i] = Wild
HasWild(loc) == \E i \in 1..3 : loc[i] = Wild

\* variant: the assertion of line 96 is compiled away
AllUniqueUnchecked(S, pts_cra, dim) == TRUE

\* line 96: len(np.unique(crd)) == len(crd)
AllUnique(S, pts_cra, dim) ==
    Cardinality({ pts_cra[p][dim] : p \in S }) = Cardinality(S)

\* variant: every wildcard key gets a cache entry, matched or not
get_ids_cache_all(pts_xyz, domain) ==
    LET pts_cra == [p \in DOMAIN pts_xyz |-> xyz2cra(pts_xyz[p])]
        b == Buckets(pts_cra, domain)
        locs == Locations(b)
        found(loc) == Matching(pts_cra, b, loc)
        ids == [loc \in locs |->
                  IF HasWild(loc) /\ found(loc) # {}
                  THEN ArgSort(found(loc), pts_cra, WildDim(loc))
                  ELSE Ascending(found(loc))]
        sorted == { loc \in locs : HasWild(loc) }
        coords == [loc \in sorted |->
                     [j \in 1..Len(ids[loc]) |->
                        pts_cra[ids[loc][j]][WildDim(loc)]]]
        unique(loc) == AllUnique(found(loc), pts_cra, WildDim(loc))
    IN [raised |-> IF \A loc \in sorted : unique(loc)
                   THEN "none" ELSE "AssertionError",
        ids |-> ids, coords |-> coords]

\* lines 42-98
get_ids(pts_xyz, domain) ==
    LET pts_cra == [p \in DOMAIN pts_xyz |-> xyz2cra(pts_xyz[p])]
        b == Buckets(pts_cra, domain)
        locs == Locations(b)
        found(loc) == Matching(pts_cra, b, loc)
        ids == [loc \in locs |->
                  IF HasWild(loc) /\ found(loc) # {}
                  THEN ArgSort(found(loc), pts_cra, WildDim(loc))
                  ELSE Ascending(found(loc))]
        sorted == { loc \in locs : HasWild(loc) /\ found(loc) # {} }
        coords == [loc \in sorted |->
                     [j \in 1..Len(ids[loc]) |->
                        pts_cra[ids[loc][j]][WildDim(loc)]]]
        unique(loc) == AllUnique(found(loc), pts_cra, WildDim(loc))
    IN [raised |-> IF \A loc \in sorted : unique(loc)
                   THEN "none" ELSE "AssertionError",
        ids |-> ids, coords |-> coords]


(***************************************************************************)
(* Field extraction and time-averaging                                     *)
(***************************************************************************)
\* post[loc][f] += [x] on a defaultdict(list)
DictAppend(d, f, x) ==
    DictPut(d, f, IF f \in DOMAIN d THEN Append(d[f], x) ELSE << x >>)

\* arr[pt] for an index array pt
Gather(arr, pt) == [j \in 1..Len(pt) |-> arr[pt[j]]]

HasArray(snap, name) == name \in DOMAIN snap.arrays

\* lines 103-105, 114: the scalar pressure and the velocity magnitude
PressureOf(snap) == [p \in DOMAIN snap.arrays["Pressure"] |->
                       snap.arrays["Pressure"][p][1]]
MagnitudeOf(snap, name) == [p \in DOMAIN snap.arrays[name] |->
                              Norm(snap.arrays[name][p])]

\* variant: Traction is preferred to WSS
WssOfTractionFirst(snap, npts) ==
    IF HasArray(snap, "Traction") THEN MagnitudeOf(snap, "Traction")
    ELSE IF HasArray(snap, "WSS") THEN MagnitudeOf(snap, "WSS")
    ELSE [p \in 1..npts |-> 0]

\* lines 123-133: the wall shear stress magnitude of a snapshot
WssOf(snap, npts) ==
    IF HasArray(snap, "WSS") THEN MagnitudeOf(snap, "WSS")
    ELSE IF HasArray(snap, "Traction") THEN MagnitudeOf(snap, "Traction")
    ELSE [p \in 1..npts |-> 0]

\* lines 129-132: the branch of extract_wss that prints the warning
WssWarned(snap) == ~HasArray(snap, "WSS") /\ ~HasArray(snap, "Traction")

\* lines 340-347: the same magnitude, as the mid-ring series computes it
WssMidOf(snap, npts) ==
    IF HasArray(snap, "WSS") THEN MagnitudeOf(snap, "WSS")
    ELSE IF HasArray(snap, "Traction") THEN MagnitudeOf(snap, "Traction")
    ELSE [p \in 1..npts |-> 0]

Extracted(raised, post) == [raised |-> raised, post |-> post]

\* lines 101-109; v2n of a missing array raises
extract_results_fluid_centerline(post, snap, ids) ==
    IF ~HasArray(snap, "Pressure") \/ ~HasArray(snap, "Velocity")
    THEN Extracted("AttributeError", post)
    ELSE Extracted("none",
           [loc \in DOMAIN post |->
              DictAppend(DictAppend(post[loc], "pressure",
                                    Gather(PressureOf(snap), ids[loc])),
                         "velocity",
                         Gather(MagnitudeOf(snap, "Velocity"), ids[loc]))])

\* lines 112-117
extract_results_wall(post, snap, ids) ==
    IF ~HasArray(snap, "Pressure")
    THEN Extracted("AttributeError", post)
    ELSE Extracted("none",
           [loc \in DOMAIN post |->
              DictAppend(post[loc], "pressure",
                         Gather(PressureOf(snap), ids[loc]))])

\* lines 120-136
extract_wss(post, snap, npts, ids) ==
    Extracted("none",
      [loc \in DOMAIN post |->
         DictAppend(post[loc], "wss", Gather(WssOf(snap, npts), ids[loc]))])

\* variant: the window starts one snapshot early
InWindowEarly(i, start) == i >= start - 1

\* line 154: is snapshot i (0-based) in the averaging window
InWindow(i, start) == i >= start

RECURSIVE SumAt(_, _, _)
\* the sum over the first n arrays of a series, at position j
SumAt(data, j, n) ==
    IF n = 0 THEN 0 ELSE SumAt(data, j, n - 1) + data[n][j]

\* variant: the sum instead of the mean
SumAxis0(data) ==
    [j \in 1..Len(data[1]) |->
       [num |-> SumAt(data, j, Len(data)), den |-> 1]]

\* np.mean(data, axis=0): the elementwise mean as the fraction num/den
MeanAxis0(data) ==
    [j \in 1..Len(data[1]) |->
       [num |-> SumAt(data, j, Len(data)), den |-> Len(data)]]

\* lines 160-172 for one dict of series
AverageAll(post) ==
    [loc \in DOMAIN post |->
       [f \in DOMAIN post[loc] |-> MeanAxis0(post[loc][f])]]

RECURSIVE SeqSum(_)
SeqSum(q) == IF q = <<>> THEN 0 ELSE q[1] + SeqSum(Tail(q))

\* np.mean of a 1-d array; den = 0 is the nan of an empty array
Mean1(arr) == [num |-> SeqSum(arr), den |-> Len(arr)]

MidRing == << Wild, "wall", "mid" >>

\* variant: the series starts at the snapshot start_step
extract_wss_mid_timeseries_windowed(results, npts, ids_interface) ==
    LET first == IF start_step > 0 THEN start_step ELSE 0
    IN [k \in 1..(Len(results) - first) |->
          Mean1(Gather(WssMidOf(results[k + first], npts),
                       ids_interface[MidRing]))]

\* lines 330-350
extract_wss_mid_timeseries(results, npts, ids_interface) ==
    [k \in 1..Len(results) |->
       Mean1(Gather(WssMidOf(results[k], npts), ids_interface[MidRing]))]

(***************************************************************************)
(* post_process                                                            *)
(***************************************************************************)
NoGeo == [ids_fluid |-> EmptyDict, coords_fluid |-> EmptyDict,
          ids_interface |-> EmptyDict, coords_interface |-> EmptyDict]

NoAveraged == [data_fluid |-> EmptyDict, data_interface |-> EmptyDict,
               data_interface_time |-> EmptyDict]

PRaise(exc) == ppc' = "done" /\ perr' = exc

\* lines 188-195: read_res and the check for an empty directory
ReadRes ==
    /\ ppc = "read"
    /\ res' = files
    /\ stages' = Append(stages, "read")
    /\ IF Len(files) = 0
       THEN PRaise("RuntimeError")
       ELSE ppc' = "check_start" /\ UNCHANGED perr
    /\ UNCHANGED << files, start_step, warnings, geo, step_i, post_fluid,
                    post_interface_time, averaged, wss_mid_all >>
    /\ UNCHANGED << cmpVars, mainVars, sumVars >>

\* variant: a start step equal to the number of snapshots is accepted
StartBeyondStrict(start, n) == start > n

\* line 197: is the start step beyond the available steps
StartBeyond(start, n) == start >= n

\* lines 197-198
CheckStartStep ==
    /\ ppc = "check_start"
    /\ IF StartBeyond(start_step, Len(res))
       THEN PRaise("RuntimeError")
       ELSE ppc' = "ids_fluid" /\ UNCHANGED perr
    /\ UNCHANGED << files, start_step, warnings, res, geo, step_i, post_fluid,
                    post_interface_time, averaged, wss_mid_all, stages >>
    /\ UNCHANGED << cmpVars, mainVars, sumVars >>

\* variant: the points of the last snapshot
LastPoints(results) == results[Len(results)].points

\* line 201: pts, the point coordinates of res[0]
FirstPoints(results) == results[1].points

\* lines 201-204
GetIdsFluid ==
    /\ ppc = "ids_fluid"
    /\ stages' = Append(stages, "get_ids")
    /\ LET g == get_ids(FirstPoints(res), "fluid") IN
       IF g.raised # "none"
       THEN PRaise(g.raised) /\ UNCHANGED geo
       ELSE /\ geo' = [geo EXCEPT !.ids_fluid = g.ids,
                                  !.coords_fluid = g.coords]
            /\ ppc' = "ids_interface"
            /\ UNCHANGED perr
    /\ UNCHANGED << files, start_step, warnings, res, step_i, post_fluid,
                    post_interface_time, averaged, wss_mid_all >>
    /\ UNCHANGED << cmpVars, mainVars, sumVars >>

\* line 207, and lines 141-149 of get_results
GetIdsInterface ==
    /\ ppc = "ids_interface"
    /\ LET g == get_ids(FirstPoints(res), "interface") IN
       IF g.raised # "none"
       THEN /\ PRaise(g.raised)
            /\ UNCHANGED << geo, post_fluid, post_interface_time >>
       ELSE /\ geo' = [geo EXCEPT !.ids_interface = g.ids,
                                  !.coords_interface = g.coords]
            /\ post_fluid' = [loc \in DOMAIN geo.ids_fluid |-> EmptyDict]
            /\ post_interface_time' = [loc \in DOMAIN g.ids |-> EmptyDict]
            /\ ppc' = "extract"
            /\ UNCHANGED perr
    /\ UNCHANGED << files, start_step, warnings, res, step_i, averaged, wss_mid_all,
                    stages >>
    /\ UNCHANGED << cmpVars, mainVars, sumVars >>

\* lines 153-157: one iteration of the loop over the snapshots
ExtractStep ==
    /\ ppc = "extract"
    /\ step_i < Len(res)
    /\ stages' = Append(stages, "extract")
    /\ IF InWindow(step_i, start_step)
       THEN LET snap == res[step_i + 1]
                npts == Len(FirstPoints(res))
                ef == extract_results_fluid_centerline(post_fluid, snap,
                                                       geo.ids_fluid)
                ew == extract_results_wall(post_interface_time, snap,
                                           geo.ids_interface)
                es == extract_wss(ew.post, snap, npts, geo.ids_interface)
            IN IF ef.raised # "none" \/ ew.raised # "none"
               THEN /\ PRaise(IF ef.raised # "none" THEN ef.raised
                              ELSE ew.raised)
                    /\ post_fluid' = ef.post
                    /\ UNCHANGED << post_interface_time, step_i, warnings >>
               ELSE /\ post_fluid' = ef.post
                    /\ post_interface_time' = es.post
                    /\ warnings' = IF WssWarned(snap) THEN warnings + 1
                                   ELSE warnings
                    /\ step_i' = step_i + 1
                    /\ UNCHANGED << ppc, perr >>
       ELSE /\ step_i' = step_i + 1
            /\ UNCHANGED << ppc, perr, post_fluid, post_interface_time,
                            warnings >>
    /\ UNCHANGED << files, start_step, res, geo, averaged, wss_mid_all >>
    /\ UNCHANGED << cmpVars, mainVars, sumVars >>

\* lines 160-174: the time averages
Average ==
    /\ ppc = "extract"
    /\ step_i = Len(res)
    /\ stages' = Append(stages, "average")
    /\ averaged' = [data_fluid |-> AverageAll(post_fluid),
                    data_interface |-> AverageAll(post_interface_time),
                    data_interface_time |-> post_interface_time]
    /\ ppc' = "wss_mid"
    /\ UNCHANGED << files, start_step, warnings, res, geo, step_i, post_fluid,
                    post_interface_time, wss_mid_all, perr >>
    /\ UNCHANGED << cmpVars, mainVars, sumVars >>

\* lines 213-215
WssMid ==
    /\ ppc = "wss_mid"
    /\ wss_mid_all' = extract_wss_mid_timeseries(res, Len(FirstPoints(res)),
                                                 geo.ids_interface)
    /\ ppc' = "done"
    /\ UNCHANGED << files, start_step, warnings, res, geo, step_i, post_fluid,
                    post_interface_time, averaged, stages, perr >>
    /\ UNCHANGED << cmpVars, mainVars, sumVars >>

(***************************************************************************)
(* main() of post_steady_fluid.py: the plots made of post_process's result *)
(***************************************************************************)
Plotted(raised, figures) == [raised |-> raised, figures |-> figures]

\* lines 304-323: the name of the saved figure
FigureName(quant, locations, plot_combined) ==
    IF HasWild(locations[1])
    THEN LET dim == WildDim(locations[1]) IN
         CASE dim = 3 /\ plot_combined -> << quant, "axi", "wall" >>
           [] dim = 3 -> << quant, "axi", locations[1][1] >>
           [] dim = 1 -> << quant, "cir", locations[1][3] >>
           [] OTHER -> << quant, "rad", "" >>
    ELSE << quant, "points", "" >>

RECURSIVE PlotCurves(_, _, _, _, _)
\* the loop of lines 241-299 from location k on: the curves drawn, each
\* with the lengths of its x and y data
PlotCurves(data, coords, quant, locations, k) ==
    IF k > Len(locations) THEN [raised |-> "none", curves |-> <<>>]
    ELSE LET loc == locations[k]
             rest == PlotCurves(data, coords, quant, locations, k + 1)
         IN IF loc \notin DOMAIN data
            THEN [raised |-> "KeyError", curves |-> <<>>]
            ELSE IF quant \notin DOMAIN data[loc] THEN rest
            ELSE IF loc \notin DOMAIN coords
            THEN [raised |-> "KeyError", curves |-> <<>>]
            ELSE IF Len(coords[loc]) = 0 \/ Len(data[loc][quant]) = 0
            THEN [raised |-> "IndexError", curves |-> <<>>]
            ELSE LET closing == IF WildDim(loc) = 1 THEN 1 ELSE 0
                     curve == [loc |-> loc,
                               nx |-> Len(coords[loc]) + closing,
                               ny |-> Len(data[loc][quant]) + closing]
                 IN [raised |-> rest.raised,
                     curves |-> << curve >> \o rest.curves]

\* lines 218-327: one saved figure, or the exception raised
plot_single(data, coords, quant, locations, plot_combined) ==
    LET drawn == PlotCurves(data, coords, quant, locations, 1)
    IN IF drawn.raised # "none" THEN Plotted(drawn.raised, <<>>)
       ELSE Plotted("none",
              << [name |-> FigureName(quant, locations, plot_combined),
                  curves |-> drawn.curves] >>)

PlotCall(data, coords, quant, locations, plot_combined) ==
    [data |-> data, coords |-> coords, quant |-> quant,
     locations |-> locations, plot_combined |-> plot_combined]

RECURSIVE RunPlots(_, _)
\* the calls of plot_single in order, up to the first exception
RunPlots(calls, k) ==
    IF k > Len(calls) THEN Plotted("none", <<>>)
    ELSE LET c == calls[k]
             fig == plot_single(c.data, c.coords, c.quant, c.locations,
                                c.plot_combined)
         IN IF fig.raised # "none" THEN fig
            ELSE LET rest == RunPlots(calls, k + 1)
                 IN Plotted(rest.raised, fig.figures \o rest.figures)

RECURSIVE KeepIn(_, _)
\* the members of a sequence that are in a set, in order
KeepIn(q, S) ==
    IF q = <<>> THEN <<>>
    ELSE (IF q[1] \in S THEN << q[1] >> ELSE <<>>) \o KeepIn(Tail(q), S)

CirOrder == << "0", "3", "6", "9" >>
AxiOrder == << "start", "mid", "end" >>

\* variant: the locations to plot are taken from the index dict
PlotKeysOfIds(ids, coords) == DOMAIN ids

\* lines 448, 454, 462: a location is plotted when it has coordinates
PlotKeys(ids, coords) == DOMAIN coords

\* lines 429-467; selected_* are the keys the `in coords` tests accept
plot_res(data_fluid, data_interface, selected_fluid, coords_fluid, selected_interface, coords_interface) ==
    LET loc_cir_interface ==
            KeepIn(CirOrder, { loc[1] : loc \in DOMAIN data_interface })
        centerline == << "0", "center", Wild >>
        velocity == IF centerline \in selected_fluid
                    THEN << PlotCall(data_fluid, coords_fluid, "velocity",
                                     << centerline >>, FALSE) >>
                    ELSE <<>>
        rings(f) ==
            LET ringlocs == KeepIn([i \in 1..3 |->
                                         << Wild, "wall", AxiOrder[i] >>],
                                      selected_interface)
            IN [i \in 1..Len(ringlocs) |->
                  PlotCall(data_interface, coords_interface, f,
                           << ringlocs[i] >>, FALSE)]
        axial_locs ==
            KeepIn([i \in 1..Len(loc_cir_interface) |->
                         << loc_cir_interface[i], "wall", Wild >>],
                      selected_interface)
        combined(f) ==
            IF Len(axial_locs) > 0
            THEN << PlotCall(data_interface, coords_interface, f, axial_locs,
                             TRUE) >>
            ELSE <<>>
    IN RunPlots(velocity \o rings("pressure") \o rings("wss")
                  \o combined("pressure") \o combined("wss"), 1)

\* np.mean(wss_data, axis=1): the mean over the ring at each time
MeanAxis1(data) == [t \in 1..Len(data) |-> Mean1(data[t])]

\* lines 386-426: the figure of the ring means over time
plot_wss_time_series(data_interface_time, start) ==
    LET locations == KeepIn([i \in 1..3 |-> << Wild, "wall", AxiOrder[i] >>],
                               { loc \in DOMAIN data_interface_time :
                                   "wss" \in DOMAIN data_interface_time[loc] })
    IN [name |-> << "wss", "time_series", "rings" >>,
        curves |-> [i \in 1..Len(locations) |->
                      LET wss_avg ==
                            MeanAxis1(data_interface_time[locations[i]]["wss"])
                      IN [loc |-> locations[i],
                          wss_avg |-> wss_avg,
                          time_steps |-> [t \in 1..Len(wss_avg) |->
                                            (t - 1) + start + 1]]]]

\* f_scales["wss"][0]
WssScale == 10000
Scaled(m) == [num |-> m.num * WssScale, den |-> m.den]

MaxPeriod == 3
\* --steps-per-beat: absent, or an integer
NoStepsPerBeat == [given |-> FALSE, value |-> 0]
StepsPerBeatArgs ==
    { NoStepsPerBeat } \cup { [given |-> TRUE, value |-> p] : p \in 0..MaxPeriod }

NoOverlay == [called |-> FALSE, raised |-> "none", steps_per_beat |-> 0,
              n_beats |-> 0, windows |-> <<>>, saved |-> FALSE]

\* variant: a last, shorter window is drawn for the remaining samples
BeatCountCeil(len, steps_per_beat) ==
    (len + steps_per_beat - 1) \div steps_per_beat

\* line 357: len(wss_dyne) // steps_per_beat
BeatCount(len, steps_per_beat) == len \div steps_per_beat

\* wss_dyne[start:end] for 0-based start and end, clipped as a slice is
Slice(q, start, end) ==
    SubSeq(q, start + 1, IF end < Len(q) THEN end ELSE Len(q))

\* lines 353-383
plot_wss_heartbeat_overlay(wss_all, steps_per_beat) ==
    IF steps_per_beat = 0
    THEN [called |-> TRUE, raised |-> "ZeroDivisionError",
          steps_per_beat |-> steps_per_beat, n_beats |-> 0,
          windows |-> <<>>, saved |-> FALSE]
    ELSE LET wss_dyne == [k \in 1..Len(wss_all) |-> Scaled(wss_all[k])]
             n_beats == BeatCount(Len(wss_dyne), steps_per_beat)
         IN [called |-> TRUE, raised |-> "none",
             steps_per_beat |-> steps_per_beat, n_beats |-> n_beats,
             windows |-> [i \in 1..n_beats |->
                            Slice(wss_dyne, (i - 1) * steps_per_beat,
                                  (i - 1) * steps_per_beat + steps_per_beat)],
             saved |-> n_beats # 0]

MRaise(exc) == mpc' = "done" /\ merr' = exc

\* line 498, once post_process (line 491) has returned
PlotRes ==
    /\ mpc = "post_process"
    /\ ppc = "done" /\ perr = "none"
    /\ LET r == plot_res(averaged.data_fluid, averaged.data_interface,
                         PlotKeys(geo.ids_fluid, geo.coords_fluid),
                         geo.coords_fluid,
                         PlotKeys(geo.ids_interface, geo.coords_interface),
                         geo.coords_interface)
       IN /\ plots' = plots \o r.figures
          /\ IF r.raised # "none" THEN MRaise(r.raised)
             ELSE mpc' = "plot_wss_time_series" /\ UNCHANGED merr
    /\ UNCHANGED overlay
    /\ UNCHANGED << cmpVars, postVars, sumVars >>

\* line 501
PlotWssTimeSeries ==
    /\ mpc = "plot_wss_time_series"
    /\ plots' = Append(plots, plot_wss_time_series(
                                  averaged.data_interface_time, start_step))
    /\ mpc' = "heartbeat"
    /\ UNCHANGED << overlay, merr >>
    /\ UNCHANGED << cmpVars, postVars, sumVars >>

\* lines 504-505
PlotHeartbeat ==
    /\ mpc = "heartbeat"
    /\ \E arg \in StepsPerBeatArgs :
         IF arg.given
         THEN LET o == plot_wss_heartbeat_overlay(wss_mid_all, arg.value)
              IN /\ overlay' = o
                 /\ IF o.raised # "none" THEN MRaise(o.raised)
                    ELSE mpc' = "done" /\ UNCHANGED merr
         ELSE /\ mpc' = "done"
              /\ UNCHANGED << overlay, merr >>
    /\ UNCHANGED plots
    /\ UNCHANGED << cmpVars, postVars, sumVars >>

(***************************************************************************)
(* post_fluid.py: the directory of snapshots and the command line          *)
(***************************************************************************)
\* The files are steady_<n>.vtu; a name is the character codes of its part
\* after the common prefix steady_, up to the dot: the digits of n and ".".
Digits(n) == IF n < 10 THEN << n >> ELSE << n \div 10, n % 10 >>
CharOfDigit(dgt) == 48 + dgt
CharDot == 46
FileName(n) ==
    [i \in 1..Len(Digits(n)) |-> CharOfDigit(Digits(n)[i])] \o << CharDot >>

\* the number in the name of the k-th file written by the solver: 1, 2, 10,
\* 4, 5, 20, ...; file k holds the snapshot of level k
FileNumber(k) == IF k % 3 = 0 THEN 10 * (k \div 3) ELSE k
FileIndices == 1..MaxSnaps

\* the point arrays a file of the directory may hold
SummaryArraySets ==
    { AllArrays, AllArrays \ {"WSS"}, {"Pressure", "Velocity"}, {} }

\* a directory: the files present, each with the arrays it holds
SummaryDirectories ==
    UNION { [S -> SummaryArraySets] : S \in SUBSET FileIndices }

\* a cylinder of height 20 with wall nodes at half height and at the two
\* edges of the 5% band around it
MeshTall ==
    << Pt(0, 0, 0), Pt(0, 2, 9), Pt(0, 2, 10), Pt(0, 2, 11), Pt(0, 0, 20) >>

\* the points of the files of a directory and the ids of the nodes at
\* which the WSS array is zero (interior nodes)
Mesh(points, interior) == [points |-> points, interior |-> interior]

PlainMesh == Mesh(MeshPts, {})

SummaryMeshes ==
    { PlainMesh, Mesh(MeshPts, {1, 2, 3}), Mesh(MeshPts, 1..NPts),
      Mesh(MeshTall, {1, 5}), Mesh(MeshNoMid, {}) }

\* the snapshot of level L on a mesh: WSS vanishes at the interior nodes
SummarySnapshot(mesh, L, names) ==
    LET snap == SnapshotOn(mesh.points, L, names)
    IN IF "WSS" \in names
       THEN [snap EXCEPT !.arrays["WSS"] =
               [p \in DOMAIN @ |->
                  IF p \in mesh.interior THEN << 0, 0, 0 >> ELSE @[p]]]
       ELSE snap

RECURSIVE LexLess(_, _)
\* the order of Python strings: by character code, a proper prefix first
LexLess(a, b) ==
    IF a = <<>> THEN b # <<>>
    ELSE IF b = <<>> THEN FALSE
    ELSE IF a[1] # b[1] THEN a[1] < b[1]
    ELSE LexLess(Tail(a), Tail(b))

\* variant: the files are compared by the number in their name
NameBeforeByNumber(k, j) == FileNumber(k) < FileNumber(j)

\* the comparison of sorted(): is the name of file k before that of file j
NameBefore(k, j) ==
    LexLess(FileName(FileNumber(k)), FileName(FileNumber(j)))

RECURSIVE SortedByName(_)
\* line 118: sorted(glob.glob(fname)), as the sequence of file indices
SortedByName(S) ==
    IF S = {} THEN <<>>
    ELSE LET first == CHOOSE k \in S : \A j \in S \ {k} : NameBefore(k, j)
         IN << first >> \o SortedByName(S \ {first})

\* os.path.join on paths kept as sequences of components
Join(path, name) == Append(path, name)

InputDir == << "sim" >>
GivenOutput == << "out" >>

\* lines 336-338: the output directory when -o is absent
DefaultOutput(output_dir) == Join(<< "." >>, "post_results")

SummaryArgs ==
    [output_given : BOOLEAN, no_plot : BOOLEAN, csv : BOOLEAN]

(***************************************************************************)
(* extract_results_fluid                                                   *)
(***************************************************************************)
Range(q) == { q[i] : i \in DOMAIN q }

NoResult == [keys |-> <<>>, val |-> EmptyDict]

\* results[k] = v on a dict that keeps the order of insertion
Put(r, k, v) == [keys |-> Append(r.keys, k), val |-> DictPut(r.val, k, v)]

HasKey(r, k) == k \in DOMAIN r.val

\* lines 78-83: the point ids within the 5 % band around mid height,
\* |z - z_mid| < 0.05 * (z_max - z_min), in point order
MidBand(points) ==
    LET zs == { points[p].z : p \in DOMAIN points }
        z_min == SetMin(zs)
        z_max == SetMax(zs)
    IN Ascending({ p \in DOMAIN points :
                     10 * Abs(2 * points[p].z - z_min - z_max)
                         < z_max - z_min })

\* variant: the mean over the whole band, interior nodes included
WssMidMeanOfBand(wss_mag, points) ==
    Mean1(Gather(wss_mag, MidBand(points)))

\* lines 84-89: the mean over the band, over its wall nodes when it has any
WssMidMean(wss_mag, points) ==
    LET wss_mid == Gather(wss_mag, MidBand(points))
        wall == KeepIn(wss_mid, { x \in Range(wss_mid) : x > 0 })
    IN IF Len(wall) > 0 THEN Mean1(wall) ELSE Mean1(wss_mid)

\* lines 49-54
PutPressure(r, snap) ==
    IF ~HasArray(snap, "Pressure") THEN r
    ELSE LET pressure == PressureOf(snap)
         IN Put(Put(Put(r, "pressure_mean", Mean1(pressure)),
                    "pressure_max", SetMax(Range(pressure))),
                "pressure_min", SetMin(Range(pressure)))

\* lines 57-63
PutVelocity(r, snap) ==
    IF ~HasArray(snap, "Velocity") THEN r
    ELSE LET velocity_mag == MagnitudeOf(snap, "Velocity")
         IN Put(Put(r, "velocity_mean", Mean1(velocity_mag)),
                "velocity_max", SetMax(Range(velocity_mag)))

\* lines 66-89
PutWss(r, snap) ==
    IF ~HasArray(snap, "WSS") THEN r
    ELSE LET wss_mag == MagnitudeOf(snap, "WSS")
         IN Put(Put(Put(r, "wss_mean", Mean1(wss_mag)),
                    "wss_max", SetMax(Range(wss_mag))),
                "wss_mid_mean", WssMidMean(wss_mag, snap.points))

\* lines 92-101
PutTraction(r, snap) ==
    IF ~HasArray(snap, "Traction") THEN r
    ELSE LET traction_mag == MagnitudeOf(snap, "Traction")
         IN Put(Put(r, "traction_mean", Mean1(traction_mag)),
                "traction_max", SetMax(Range(traction_mag)))

\* lines 32-103: the statistics of one snapshot, in the order of insertion
\* (the raw arrays stored beside them are not used by any caller)
extract_results_fluid(snap) ==
    PutTraction(PutWss(PutVelocity(PutPressure(NoResult, snap), snap), snap),
                snap)

(***************************************************************************)
(* summarize_results, the plots and the CSV export of post_fluid.py        *)
(***************************************************************************)
Done(raised, out) == [raised |-> raised, out |-> out]

\* the statistics summarize_results reads of each result, per group
SummaryGroups ==
    << [mean |-> "pressure_mean", others |-> << "pressure_min", "pressure_max" >>],
       [mean |-> "velocity_mean", others |-> << "velocity_max" >>],
       [mean |-> "wss_mean", others |-> << "wss_max" >>],
       [mean |-> "traction_mean", others |-> << "traction_max" >>] >>

\* [r[key] for r in results]: the list, or the KeyError of a missing key
Column(results, key) ==
    IF \E i \in 1..Len(results) : ~HasKey(results[i], key)
    THEN Done("KeyError", <<>>)
    ELSE Done("none", [i \in 1..Len(results) |-> results[i].val[key]])

RECURSIVE SummarizeFrom(_, _)
\* lines 146-169 from group g on: the groups printed, each with the list of
\* its means and its extreme values
SummarizeFrom(results, g) ==
    IF g > Len(SummaryGroups) THEN Done("none", <<>>)
    ELSE LET grp == SummaryGroups[g]
             rest == SummarizeFrom(results, g + 1)
         IN IF ~HasKey(results[1], grp.mean) THEN rest
            ELSE LET means == Column(results, grp.mean)
                     others == [k \in 1..Len(grp.others) |->
                                  Column(results, grp.others[k])]
                 IN IF means.raised # "none" THEN Done(means.raised, <<>>)
                    ELSE IF \E k \in 1..Len(others) : others[k].raised # "none"
                    THEN Done("KeyError", <<>>)
                    ELSE Done(rest.raised,
                           << [field |-> grp.mean, means |-> means.out,
                               extremes |->
                                 [k \in 1..Len(others) |->
                                    IF grp.others[k] = "pressure_min"
                                    THEN SetMin(Range(others[k].out))
                                    ELSE SetMax(Range(others[k].out))]] >>
                             \o rest.out)

\* lines 135-171
summarize_results(results) ==
    LET s == SummarizeFrom(results, 1)
    IN IF s.raised # "none" THEN Done(s.raised, <<>>) ELSE s

RECURSIVE CurvesFrom(_, _, _)
\* lines 208-213: one curve per plotted quantity
CurvesFrom(results, quantities, k) ==
    IF k > Len(quantities) THEN Done("none", <<>>)
    ELSE LET data == Column(results, quantities[k])
         IN IF data.raised # "none" THEN Done(data.raised, <<>>)
            ELSE LET rest == CurvesFrom(results, quantities, k + 1)
                 IN Done(rest.raised,
                         IF rest.raised # "none" THEN <<>>
                         ELSE << [field |-> quantities[k],
                                  time_steps |-> [i \in 1..Len(results) |-> i - 1],
                                  data |-> data.out] >> \o rest.out)

\* lines 174-219: the file written, if any
plot_time_series(results, output_dir) ==
    LET plot_quantities ==
            KeepIn([g \in 1..Len(SummaryGroups) |-> SummaryGroups[g].mean],
                   DOMAIN results[1].val)
        curves == CurvesFrom(results, plot_quantities, 1)
    IN IF Len(plot_quantities) = 0 THEN Done("none", <<>>)
       ELSE IF curves.raised # "none" THEN Done(curves.raised, <<>>)
       ELSE Done("none", << [path |-> Join(output_dir, "fluid_time_series.pdf"),
                             kind |-> "time_series",
                             content |-> curves.out] >>)

NoBeats == [called |-> FALSE, raised |-> "none", steps_per_beat |-> 0,
            n_beats |-> 0, windows |-> <<>>, saved |-> FALSE]

\* lines 222-266
plot_wss_heartbeats(results, steps_per_beat) ==
    LET Call(raised, n, windows) ==
            [called |-> TRUE, raised |-> raised,
             steps_per_beat |-> steps_per_beat, n_beats |-> n,
             windows |-> windows, saved |-> n # 0]
        wss_mid == Column(results, "wss_mid_mean")
    IN IF ~HasKey(results[1], "wss_mid_mean") THEN Call("none", 0, <<>>)
       ELSE IF wss_mid.raised # "none" THEN Call(wss_mid.raised, 0, <<>>)
       ELSE IF steps_per_beat = 0 THEN Call("ZeroDivisionError", 0, <<>>)
       ELSE LET n_beats == BeatCount(Len(wss_mid.out), steps_per_beat)
            IN Call("none", n_beats,
                     [i \in 1..n_beats |->
                        Slice(wss_mid.out, (i - 1) * steps_per_beat,
                              (i - 1) * steps_per_beat + steps_per_beat)])

\* str(res.get(field, "")): the text of the value, or the empty text
Cell(r, field) == IF HasKey(r, field) THEN << r.val[field] >> ELSE <<>>

\* line 293: the timestep column of the i-th row (i from 1)
RowNumber(i) == i - 1

\* lines 269-295: the header and the data rows of the file
export_to_csv(results, output_file) ==
    LET fields == results[1].keys
    IN [path |-> output_file,
        kind |-> "csv",
        content |->
          [header |-> << "timestep" >> \o fields,
           rows |-> [i \in 1..Len(results) |->
                       [timestep |-> RowNumber(i),
                        cells |-> [j \in 1..Len(fields) |->
                                     Cell(results[i], fields[j])]]]]]

(***************************************************************************)
(* main() of post_fluid.py                                                 *)
(***************************************************************************)
SRaise(exc) == spc' = "done" /\ serr' = exc

\* lines 333-338
SetOutput ==
    /\ spc = "start"
    /\ out_dir' = IF sargs.output_given THEN GivenOutput
                  ELSE DefaultOutput(InputDir)
    /\ spc' = "read"
    /\ UNCHANGED << sargs, sdir, smesh, sfiles, all_results, printed, written, beats,
                    serr >>
    /\ UNCHANGED << cmpVars, postVars, mainVars >>

\* line 341: read_all_results, lines 106-132
ReadAllResults ==
    /\ spc = "read"
    /\ sfiles' = SortedByName(DOMAIN sdir)
    /\ IF DOMAIN sdir = {}
       THEN SRaise("RuntimeError") /\ UNCHANGED all_results
       ELSE /\ all_results' = [i \in 1..Len(sfiles') |->
                             extract_results_fluid(
                               SummarySnapshot(smesh, sfiles'[i],
                                               sdir[sfiles'[i]]))]
            /\ spc' = "summarize"
            /\ UNCHANGED serr
    /\ UNCHANGED << sargs, sdir, smesh, out_dir, printed, written, beats >>
    /\ UNCHANGED << cmpVars, postVars, mainVars >>

\* line 344
Summarize ==
    /\ spc = "summarize"
    /\ LET s == summarize_results(all_results)
       IN /\ printed' = s.out
          /\ IF s.raised # "none" THEN SRaise(s.raised)
             ELSE spc' = "plots" /\ UNCHANGED serr
    /\ UNCHANGED << sargs, sdir, smesh, sfiles, out_dir, all_results, written, beats >>
    /\ UNCHANGED << cmpVars, postVars, mainVars >>

\* lines 347-348
PlotTimeSeries ==
    /\ spc = "plots"
    /\ ~sargs.no_plot
    /\ LET f == plot_time_series(all_results, out_dir)
       IN /\ written' = written \o f.out
          /\ IF f.raised # "none" THEN SRaise(f.raised)
             ELSE spc' = "heartbeats" /\ UNCHANGED serr
    /\ UNCHANGED << sargs, sdir, smesh, sfiles, out_dir, all_results, printed, beats >>
    /\ UNCHANGED << cmpVars, postVars, mainVars >>

\* line 347 with --no-plot
SkipPlots ==
    /\ spc = "plots"
    /\ sargs.no_plot
    /\ spc' = "csv"
    /\ UNCHANGED << sargs, sdir, smesh, sfiles, out_dir, all_results, printed, written,
                    beats, serr >>
    /\ UNCHANGED << cmpVars, postVars, mainVars >>

\* lines 349-350
PlotHeartbeats ==
    /\ spc = "heartbeats"
    /\ \E arg \in StepsPerBeatArgs :
         IF arg.given
         THEN LET b == plot_wss_heartbeats(all_results, arg.value)
              IN /\ beats' = b
                 /\ written' =
                      IF b.saved
                      THEN Append(written,
                                  [path |-> Join(out_dir, "wss_heartbeats.pdf"),
                                   kind |-> "heartbeats",
                                   content |-> b.windows])
                      ELSE written
                 /\ IF b.raised # "none" THEN SRaise(b.raised)
                    ELSE spc' = "csv" /\ UNCHANGED serr
         ELSE /\ spc' = "csv"
              /\ UNCHANGED << beats, written, serr >>
    /\ UNCHANGED << sargs, sdir, smesh, sfiles, out_dir, all_results, printed >>
    /\ UNCHANGED << cmpVars, postVars, mainVars >>

\* lines 353-355
ExportCsv ==
    /\ spc = "csv"
    /\ sargs.csv
    /\ written' = Append(written,
                         export_to_csv(all_results,
                                       Join(out_dir, "fluid_results.csv")))
    /\ spc' = "done"
    /\ UNCHANGED << sargs, sdir, smesh, sfiles, out_dir, all_results, printed, beats,
                    serr >>
    /\ UNCHANGED << cmpVars, postVars, mainVars >>

\* line 353 without --csv
SkipCsv ==
    /\ spc = "csv"
    /\ ~sargs.csv
    /\ spc' = "done"
    /\ UNCHANGED << sargs, sdir, smesh, sfiles, out_dir, all_results, printed, written,
                    beats, serr >>
    /\ UNCHANGED << cmpVars, postVars, mainVars >>

(***************************************************************************)
(* Specifications                                                          *)
(***************************************************************************)
CmpIdle ==
    /\ pc = "idle"
    /\ args = [iter_tolerance |-> DefaultIterTolerance,
               error_tolerance |-> DefaultErrorTolerance, vtu |-> "none"]
    /\ disk = NoDisk
    /\ ref_json = NoJson /\ test_json = NoJson
    /\ ref_data = NoData /\ test_data = NoData
    /\ summary = NoSummary
    /\ checks = <<>>
    /\ norm_evals = {}
    /\ field_warning = FALSE
    /\ vtu = NoVtu
    /\ report = NoReport
    /\ exit_code = -1

PostIdle ==
    /\ ppc = "idle"
    /\ files = <<>>
    /\ start_step = 0
    /\ res = <<>>
    /\ geo = NoGeo
    /\ step_i = 0
    /\ post_fluid = EmptyDict
    /\ post_interface_time = EmptyDict
    /\ averaged = NoAveraged
    /\ wss_mid_all = <<>>
    /\ stages = <<>>
    /\ perr = "none"
    /\ warnings = 0
    /\ mpc = "idle"
    /\ plots = <<>>
    /\ overlay = NoOverlay
    /\ merr = "none"

SumIdle ==
    /\ spc = "idle"
    /\ sargs = [output_given |-> FALSE, no_plot |-> FALSE, csv |-> FALSE]
    /\ sdir = EmptyDict
    /\ smesh = PlainMesh
    /\ out_dir = <<>>
    /\ sfiles = <<>>
    /\ all_results = <<>>
    /\ printed = <<>>
    /\ written = <<>>
    /\ beats = NoBeats
    /\ serr = "none"

\* the comparator is started with some command line
InitCmp ==
    /\ pc = "load_ref"
    /\ args \in [iter_tolerance : IterTolerances,
                 error_tolerance : ErrorTolerances, vtu : VtuOptions]
    /\ disk = NoDisk
    /\ ref_json = NoJson /\ test_json = NoJson
    /\ ref_data = NoData /\ test_data = NoData
    /\ summary = NoSummary
    /\ checks = <<>>
    /\ norm_evals = {}
    /\ field_warning = FALSE
    /\ vtu = NoVtu
    /\ report = NoReport
    /\ exit_code = -1
    /\ PostIdle
    /\ SumIdle

NextCmp ==
    \/ LoadRef \/ LoadTest \/ Extract \/ PrintSummary
    \/ CheckTimeSteps \/ CheckIterations \/ CheckErrorNorms
    \/ CheckVtuArgs \/ CheckVtu \/ SkipVtu \/ Finish

SpecCmp == InitCmp /\ [][NextCmp]_vars

\* the pulsatile pipeline is started on some directory of snapshots
InitPost ==
    /\ ppc = "read"
    /\ files \in Directories
    /\ start_step \in StartSteps
    /\ res = <<>>
    /\ geo = NoGeo
    /\ step_i = 0
    /\ post_fluid = EmptyDict
    /\ post_interface_time = EmptyDict
    /\ averaged = NoAveraged
    /\ wss_mid_all = <<>>
    /\ stages = <<>>
    /\ perr = "none"
    /\ warnings = 0
    /\ mpc = "post_process"
    /\ plots = <<>>
    /\ overlay = NoOverlay
    /\ merr = "none"
    /\ CmpIdle
    /\ SumIdle

NextPost ==
    \/ ReadRes \/ CheckStartStep \/ GetIdsFluid \/ GetIdsInterface
    \/ ExtractStep \/ Average \/ WssMid
    \/ PlotRes \/ PlotWssTimeSeries \/ PlotHeartbeat

SpecPost == InitPost /\ [][NextPost]_vars

\* the summary pipeline is started on some directory with some command line
InitSum ==
    /\ spc = "start"
    /\ sargs \in SummaryArgs
    /\ sdir \in SummaryDirectories
    /\ smesh \in SummaryMeshes
    /\ out_dir = <<>>
    /\ sfiles = <<>>
    /\ all_results = <<>>
    /\ printed = <<>>
    /\ written = <<>>
    /\ beats = NoBeats
    /\ serr = "none"
    /\ CmpIdle
    /\ PostIdle

NextSum ==
    \/ SetOutput \/ ReadAllResults \/ Summarize \/ PlotTimeSeries
    \/ SkipPlots \/ PlotHeartbeats \/ ExportCsv \/ SkipCsv

SpecSum == InitSum /\ [][NextSum]_vars

\* either of the two pipelines that draw a heartbeat overlay is started
SpecOverlay == (InitPost \/ InitSum) /\ [][NextPost \/ NextSum]_vars


(***************************************************************************)
(* Properties of the regression comparator                                 *)
(***************************************************************************)
ListEntries(file) ==
    { k \in 1..Len(file.errors) : file.errors[k].val.list }

HasErrorMapping(file) ==
    file.load = "ok" /\ file.shape \in {"error", "convergence"}

StepMalformed(step) == ~step.list \/ step.res = <<>>

HasMalformedStep(file) ==
    \E k \in ListEntries(file) :
       \E t \in 1..Len(file.errors[k].val.steps) :
          StepMalformed(file.errors[k].val.steps[t])

Inconsistent(file) ==
    \E k, m \in ListEntries(file) :
       Len(file.errors[k].val.steps) # Len(file.errors[m].val.steps)

\* a log in the documented format, up to fields that are not lists
Consistent(file) ==
    /\ HasErrorMapping(file)
    /\ ~HasMalformedStep(file)
    /\ ~Inconsistent(file)

\* the number of timesteps a consistent log records
LogSteps(file) ==
    IF ListEntries(file) = {} THEN 0
    ELSE Len(file.errors[CHOOSE k \in ListEntries(file) : TRUE].val.steps)

Min(a, b) == IF a < b THEN a ELSE b

\* C1: with one consistent convergence log as reference and as test, every
\* iteration-count difference and every error-norm difference is zero, the
\* three checks pass, and main returns 0 (no field comparison requested).
C1_IdenticalLogsPass ==
    (pc = "done" /\ disk.reference = disk.test /\ Consistent(disk.reference))
    => /\ summary.raised = "none"
       /\ Len(summary.iter_lines) = LogSteps(disk.reference)
       /\ \A k \in 1..Len(summary.iter_lines) : summary.iter_lines[k].diff = 0
       /\ \A k \in 1..Len(summary.norm_lines) :
             /\ ~summary.norm_lines[k].na
             /\ summary.norm_lines[k].ev.num = 0
       /\ \A e \in norm_evals : e.num = 0
       /\ Len(checks) >= 3
       /\ \A i \in 1..3 : checks[i].ok
       /\ (args.vtu = "none" => exit_code = 0 /\ report = NoReport)

C1_Witness ==
    /\ pc = "done"
    /\ disk.reference = disk.test
    /\ Consistent(disk.reference)
    /\ LogSteps(disk.reference) = 2
    /\ Len(disk.reference.errors) = 2
    /\ Cardinality(norm_evals) = 4
    /\ exit_code = 0

\* C2 as stated: an iteration-count difference above the tolerance at a
\* timestep t ends in exit code 1 with a report that names t.  Stated on
\* two consistent logs of which the test log records no more timesteps than
\* the reference, for which the summary is printed in full.
C2_IterationFailNamesStep ==
    (/\ pc = "done"
     /\ Consistent(disk.reference) /\ Consistent(disk.test)
     /\ LogSteps(disk.test) <= LogSteps(disk.reference))
    => \A t \in 1..Min(Len(ref_data.iterations), Len(test_data.iterations)) :
          Abs(test_data.iterations[t] - ref_data.iterations[t])
             > args.iter_tolerance
          => /\ exit_code = 1
             /\ (t - 1) \in report.steps

\* C2 amended: the same, for two consistent logs that record the same
\* number of timesteps; the report is the one of the iteration-count check.
C2_IterationFailNamesStepSameCount ==
    (/\ pc = "done"
     /\ Consistent(disk.reference) /\ Consistent(disk.test)
     /\ LogSteps(disk.reference) = LogSteps(disk.test))
    => \A t \in 1..Min(Len(ref_data.iterations), Len(test_data.iterations)) :
          Abs(test_data.iterations[t] - ref_data.iterations[t])
             > args.iter_tolerance
          => /\ exit_code = 1
             /\ report.exc = "ComparisonError"
             /\ report.msg = "iterations"
             /\ (t - 1) \in report.steps

C2_Witness ==
    /\ pc = "done"
    /\ Consistent(disk.reference) /\ Consistent(disk.test)
    /\ LogSteps(disk.reference) = 2 /\ LogSteps(disk.test) = 2
    /\ args.iter_tolerance = DefaultIterTolerance
    /\ Abs(test_data.iterations[2] - ref_data.iterations[2]) = 3
    /\ report.steps = {1}
    /\ exit_code = 1

SummaryEvals ==
    { summary.norm_lines[k].ev :
        k \in { n \in 1..Len(summary.norm_lines) : ~summary.norm_lines[n].na } }

\* the error-norm check ran to its end, and the pairs it reported
NormCheckCompleted ==
    /\ \E i \in 1..Len(checks) : checks[i].name = "error_norms"
    /\ report.msg = "error_norms" => report.exc = "ComparisonError"

NormFailures ==
    IF report.msg = "error_norms" /\ report.exc = "ComparisonError"
    THEN report.pairs ELSE {}

\* C3: every difference the error-norm check or the summary computes for a
\* zero reference norm is the undivided |test - ref|, nothing is divided by
\* zero, and the check lists the pair exactly when |test - ref| exceeds the
\* tolerance.
C3_ZeroReferenceAbsolute ==
    /\ report.exc # "ZeroDivisionError"
    /\ summary.raised # "ZeroDivisionError"
    /\ \A e \in norm_evals \cup SummaryEvals :
          /\ e.den # 0
          /\ e.ref = 0 => (e.den = Scale /\ e.num = Abs(e.test - e.ref))
    /\ \A e \in norm_evals :
          (e.ref = 0 /\ NormCheckCompleted)
          => (<<e.field, e.t>> \in NormFailures
                <=> Abs(e.test) * args.error_tolerance[2]
                      > args.error_tolerance[1] * Scale)

C3_Witness ==
    /\ pc = "done"
    /\ \E e \in norm_evals : e.ref = 0 /\ e.test # 0
                               /\ <<e.field, e.t>> \in NormFailures
    /\ \E e \in SummaryEvals : e.ref = 0 /\ e.test # 0


\* the tolerance violations of two extracted logs, stated on the data
NormExceeds(ref_err, test_err, tol) ==
    IF ref_err > 0
    THEN Abs(test_err - ref_err) * tol[2] > tol[1] * ref_err
    ELSE Abs(test_err - ref_err) * tol[2] > tol[1] * Scale

BothExtracted ==
    /\ disk.reference.load = "ok" /\ disk.test.load = "ok"
    /\ extract_convergence_data(disk.reference).raised = "none"
    /\ extract_convergence_data(disk.test).raised = "none"

ToleranceViolation ==
    /\ BothExtracted
    /\ \/ ref_data.time_steps # test_data.time_steps
       \/ \E t \in 1..Min(Len(ref_data.iterations), Len(test_data.iterations)) :
             Abs(test_data.iterations[t] - ref_data.iterations[t])
                > args.iter_tolerance
       \/ \E f \in (DOMAIN ref_data.errors) \cap (DOMAIN test_data.errors) :
             \E t \in 1..Min(Len(ref_data.errors[f]), Len(test_data.errors[f])) :
                NormExceeds(ref_data.errors[f][t], test_data.errors[f][t],
                            args.error_tolerance)

VtuViolation ==
    /\ \E i \in 1..Len(checks) : checks[i].name = "vtu"
    /\ \E f \in (DOMAIN RTOL) \cap (DOMAIN vtu.ref) :
          \/ f \notin DOMAIN vtu.test
          \/ ~FieldClose(vtu.test[f], vtu.ref[f], RTOL[f])

\* malformed input: unreadable or invalid JSON, no error mapping, or a
\* timestep entry that is not a non-empty list
MalformedEntry(file) ==
    \/ file.load \in {"not_found", "invalid_json"}
    \/ (file.load = "ok" /\ ~HasErrorMapping(file))
    \/ (HasErrorMapping(file) /\ HasMalformedStep(file))

\* the same, counting a field whose value is not a list as malformed
MalformedField(file) ==
    \/ MalformedEntry(file)
    \/ (HasErrorMapping(file)
          /\ \E k \in 1..Len(file.errors) : ~file.errors[k].val.list)

ExitZeroOnlyIfAllPass ==
    exit_code = 0 => /\ report = NoReport
                     /\ Len(checks) >= 3
                     /\ \A i \in 1..Len(checks) : checks[i].ok

\* C4 as stated: exit code 0 only when every executed check passes, exit
\* code 1 for every tolerance violation and every malformed input, a field
\* whose value is not a list included.
C4_ExitCodes ==
    pc = "done"
    => /\ exit_code \in {0, 1}
       /\ ExitZeroOnlyIfAllPass
       /\ (ToleranceViolation \/ VtuViolation) => exit_code = 1
       /\ (MalformedField(disk.reference) \/ MalformedField(disk.test))
             => exit_code = 1

\* C4 amended: the same, where malformed input is unreadable or invalid
\* JSON, a log without an error mapping, or a timestep entry that is not a
\* non-empty list; a field whose value is not a list is skipped.
C4_ExitCodesSkippingNonLists ==
    pc = "done"
    => /\ exit_code \in {0, 1}
       /\ ExitZeroOnlyIfAllPass
       /\ (ToleranceViolation \/ VtuViolation) => exit_code = 1
       /\ (MalformedEntry(disk.reference) \/ MalformedEntry(disk.test))
             => exit_code = 1

C4_Witness ==
    /\ pc = "done"
    /\ exit_code = 1
    /\ Consistent(disk.reference)
    /\ HasErrorMapping(disk.test)
    /\ \E k \in ListEntries(disk.test) :
          \E t \in 1..Len(disk.test.errors[k].val.steps) :
             /\ disk.test.errors[k].val.steps[t].list
             /\ disk.test.errors[k].val.steps[t].res = <<>>

CheckOrder == << "time_steps", "iterations", "error_norms", "vtu" >>

\* C5: the checks are evaluated in the order timestep count, iteration
\* count, error norm, field comparison, and a failed check is the last one
\* evaluated: main is done with exit code 1.
C5_OrderedShortCircuit ==
    /\ Len(checks) <= Len(CheckOrder)
    /\ \A i \in 1..Len(checks) :
          /\ checks[i].name = CheckOrder[i]
          /\ ~checks[i].ok => (i = Len(checks) /\ pc = "done" /\ exit_code = 1)
    /\ (vtu # NoVtu \/ norm_evals # {}) => Len(checks) >= 3

C5_Witness ==
    /\ pc = "done"
    /\ args.vtu = "both"
    /\ Len(checks) = 2
    /\ checks[1].ok /\ ~checks[2].ok
    /\ norm_evals = {}
    /\ vtu = NoVtu

\* C6: two consistent logs that record different numbers of timesteps end
\* in exit code 1, and the failure reported is the mismatch raised by the
\* timestep-count check, the only check evaluated.
C6_TimeStepMismatchReported ==
    (/\ pc = "done"
     /\ Consistent(disk.reference) /\ Consistent(disk.test)
     /\ LogSteps(disk.reference) # LogSteps(disk.test))
    => /\ exit_code = 1
       /\ report.exc = "ComparisonError"
       /\ report.msg = "time_step_mismatch"
       /\ Len(checks) = 1

\* C7: once both files are loaded, a log with two list-valued fields of
\* different timestep counts (and no malformed timestep entry) makes
\* extract_convergence_data raise the inconsistency error: main returns 1
\* without evaluating a check.
C7_InconsistentCountsRaise ==
    (/\ pc \notin {"load_ref", "load_test", "extract"}
     /\ disk.reference.load = "ok" /\ disk.test.load = "ok"
     /\ \/ (/\ HasErrorMapping(disk.reference)
            /\ Inconsistent(disk.reference)
            /\ ~HasMalformedStep(disk.reference))
        \/ (/\ Consistent(disk.reference)
            /\ HasErrorMapping(disk.test)
            /\ Inconsistent(disk.test)
            /\ ~HasMalformedStep(disk.test)))
    => /\ pc = "done"
       /\ exit_code = 1
       /\ report.exc = "ComparisonError"
       /\ report.msg = "inconsistent_time_steps"
       /\ checks = <<>>


(***************************************************************************)
(* Properties of the pulsatile pipeline                                    *)
(***************************************************************************)
Returned == ppc \in {"wss_mid", "done"} /\ perr = "none"

AllSeries ==
    { averaged.data_fluid[loc][f] :
        loc \in DOMAIN averaged.data_fluid, f \in {"pressure", "velocity"} }
      \cup { averaged.data_interface[loc][f] :
        loc \in DOMAIN averaged.data_interface, f \in {"pressure", "wss"} }

\* C8: with start_step equal to or beyond the number of snapshots,
\* post_process raises before get_ids, extraction or averaging begin, and
\* whenever get_results has returned the window holds a snapshot and every
\* average is over at least one sample.
C8_StartStepBeyondRaises ==
    /\ (ppc # "read" /\ start_step >= Len(files))
       => /\ \A k \in 1..Len(stages) : stages[k] = "read"
          /\ geo = NoGeo
          /\ averaged = NoAveraged
          /\ ppc \in {"check_start", "done"}
          /\ ppc = "done" => perr = "RuntimeError"
    /\ Returned
       => /\ start_step < Len(res)
          /\ \A a \in AllSeries : \A j \in 1..Len(a) : a[j].den >= 1

C8_Witness ==
    /\ ppc = "done"
    /\ perr = "RuntimeError"
    /\ Len(res) = 2
    /\ start_step = Len(res)

\* the value extracted from one snapshot for a field at point p
ValueAt(snap, f, p) ==
    CASE f = "pressure" -> snap.arrays["Pressure"][p][1]
      [] f = "velocity" -> Norm(snap.arrays["Velocity"][p])
      [] OTHER -> IF "WSS" \in DOMAIN snap.arrays
                  THEN Norm(snap.arrays["WSS"][p])
                  ELSE IF "Traction" \in DOMAIN snap.arrays
                       THEN Norm(snap.arrays["Traction"][p])
                       ELSE 0

\* the 1-based positions of the snapshots start_step <= i <= last index
Window == { k \in 1..Len(res) : k - 1 >= start_step }

RECURSIVE WindowSum(_, _, _)
WindowSum(W, f, p) ==
    IF W = {} THEN 0
    ELSE LET k == CHOOSE x \in W : TRUE
         IN ValueAt(res[k], f, p) + WindowSum(W \ {k}, f, p)

IsWindowMean(avg, ids, fieldset) ==
    /\ DOMAIN avg = DOMAIN ids
    /\ \A loc \in DOMAIN avg :
          /\ DOMAIN avg[loc] = fieldset
          /\ \A f \in fieldset :
                /\ Len(avg[loc][f]) = Len(ids[loc])
                /\ \A j \in 1..Len(ids[loc]) :
                      /\ avg[loc][f][j].den > 0
                      /\ avg[loc][f][j].num * Cardinality(Window)
                           = WindowSum(Window, f, ids[loc][j])
                               * avg[loc][f][j].den

\* C9: when get_results has returned, the time average of every key and
\* field is the elementwise arithmetic mean of the values extracted from
\* exactly the snapshots start_step <= i <= last index.
C9_AverageIsWindowMean ==
    Returned
    => /\ IsWindowMean(averaged.data_fluid, geo.ids_fluid,
                       {"pressure", "velocity"})
       /\ IsWindowMean(averaged.data_interface, geo.ids_interface,
                       {"pressure", "wss"})

\* three snapshots with pressure 1, 2, 3 at point 1, averaged over steps
\* 0..2, give 2
C9_Witness ==
    /\ ppc = "done" /\ perr = "none"
    /\ Len(res) = 3 /\ start_step = 0
    /\ \A k \in 1..3 : res[k].arrays["Pressure"][1] = << k >>
    /\ geo.ids_fluid[<< "0", "center", "start" >>] = << 1 >>
    /\ LET a == averaged.data_fluid[<< "0", "center", "start" >>]["pressure"][1]
       IN a.num = 2 * a.den

IsSnapshot(avg, ids, fieldset, snap) ==
    /\ DOMAIN avg = DOMAIN ids
    /\ \A loc \in DOMAIN avg :
          /\ DOMAIN avg[loc] = fieldset
          /\ \A f \in fieldset :
                avg[loc][f] = [j \in 1..Len(ids[loc]) |->
                                 [num |-> ValueAt(snap, f, ids[loc][j]),
                                  den |-> 1]]

\* C10: when start_step is the last snapshot index and get_results has
\* returned, the time average of every key and field is the array of
\* values extracted from that one snapshot.
C10_SingleSnapshotWindow ==
    (Returned /\ start_step = Len(res) - 1)
    => /\ IsSnapshot(averaged.data_fluid, geo.ids_fluid,
                     {"pressure", "velocity"}, res[Len(res)])
       /\ IsSnapshot(averaged.data_interface, geo.ids_interface,
                     {"pressure", "wss"}, res[Len(res)])

C10_Witness ==
    /\ ppc = "done" /\ perr = "none"
    /\ Len(res) = 3 /\ start_step = 2
    /\ Len(geo.ids_interface[MidRing]) = 3
    /\ Len(averaged.data_interface[MidRing]["wss"]) = 3


(***************************************************************************)
(* Properties of the plots of the pulsatile pipeline                       *)
(***************************************************************************)
\* the n with n * P <= L < (n + 1) * P
FloorDiv(L, P) == CHOOSE n \in 0..L : n * P <= L /\ L < (n + 1) * P

\* the call o of an overlay drew exactly the full windows of the series
FullWindowsDrawn(o, series) ==
    LET L == Len(series)
        P == o.steps_per_beat
        n == FloorDiv(L, P)
    IN /\ o.raised = "none"
       /\ Len(o.windows) = n
       /\ \A i \in 0..(n - 1) :
            /\ Len(o.windows[i + 1]) = P
            /\ \A j \in 0..(P - 1) :
                 o.windows[i + 1][j + 1] = series[i * P + j + 1]
       /\ o.saved <=> n > 0

\* C11: for a series of length L and a period P >= 1 the heartbeat overlay
\* draws exactly floor(L / P) windows; window i (from 0) is the P samples
\* [i * P, (i + 1) * P) of the series, the samples after the last full
\* window are not drawn, and no figure is saved when floor(L / P) = 0.
\* Both overlays are covered: the one of the pulsatile pipeline on the
\* mid-ring series in dyne/cm^2, the one of the summary pipeline on the
\* mid-section means of the results.
C11_HeartbeatWindows ==
    /\ (overlay.called /\ overlay.steps_per_beat >= 1) =>
          FullWindowsDrawn(overlay,
                           [k \in 1..Len(wss_mid_all) |->
                              Scaled(wss_mid_all[k])])
    /\ (beats.called /\ beats.steps_per_beat >= 1
          /\ HasKey(all_results[1], "wss_mid_mean")) =>
          /\ FullWindowsDrawn(beats,
                              [k \in 1..Len(all_results) |->
                                 all_results[k].val["wss_mid_mean"]])
          /\ beats.saved <=>
               \E w \in 1..Len(written) : written[w].kind = "heartbeats"

\* a series of three samples and a period of two: one window, one sample
\* left over
C11_Witness ==
    /\ overlay.called
    /\ overlay.steps_per_beat = 2
    /\ Len(wss_mid_all) = 3
    /\ Len(overlay.windows) = 1
    /\ mpc = "done"


(***************************************************************************)
(* Properties of the geometry classifier                                   *)
(***************************************************************************)
StrictlyIncreasing(q) == \A j \in 1..(Len(q) - 1) : q[j] < q[j + 1]

\* the coordinates cached for a key are those of its ids along the
\* wildcard axis, in the order of the ids
CoordsOfIds(points, ids, coords) ==
    \A loc \in DOMAIN coords :
        /\ Len(coords[loc]) = Len(ids[loc])
        /\ \A j \in 1..Len(coords[loc]) :
             coords[loc][j] = xyz2cra(points[ids[loc][j]])[WildDim(loc)]

\* two points of a wildcard key of the domain share their coordinate along
\* the wildcard axis
DuplicateAlongWild(points, domain) ==
    LET pts_cra == [p \in DOMAIN points |-> xyz2cra(points[p])]
        b == Buckets(pts_cra, domain)
    IN \E loc \in Locations(b) :
         /\ HasWild(loc)
         /\ \E p, q \in Matching(pts_cra, b, loc) :
              p # q /\ pts_cra[p][WildDim(loc)] = pts_cra[q][WildDim(loc)]

GetIdsFluidCalled == \E k \in DOMAIN stages : stages[k] = "get_ids"
GetIdsInterfaceCalled ==
    /\ GetIdsFluidCalled
    /\ ppc # "ids_interface"
    /\ ~DuplicateAlongWild(res[1].points, "fluid")

\* C12: whenever get_ids returns, the coordinate sequence cached for every
\* wildcard key is strictly increasing; when two points of a wildcard key
\* share their coordinate along the wildcard axis, get_ids raises instead
\* of returning.
C12_CoordsStrictlyIncreasing ==
    /\ \A loc \in DOMAIN geo.coords_fluid :
         StrictlyIncreasing(geo.coords_fluid[loc])
    /\ \A loc \in DOMAIN geo.coords_interface :
         StrictlyIncreasing(geo.coords_interface[loc])
    /\ GetIdsFluidCalled =>
         /\ CoordsOfIds(res[1].points, geo.ids_fluid, geo.coords_fluid)
         /\ DuplicateAlongWild(res[1].points, "fluid") =>
              perr = "AssertionError" /\ geo = NoGeo
    /\ GetIdsInterfaceCalled =>
         /\ CoordsOfIds(res[1].points, geo.ids_interface, geo.coords_interface)
         /\ DuplicateAlongWild(res[1].points, "interface") =>
              perr = "AssertionError" /\ geo.coords_interface = EmptyDict

\* get_ids has returned for both domains, the centerline key holds its two
\* points in the order of their axial coordinate, not of their ids
C12_Witness ==
    /\ ppc = "extract"
    /\ geo.ids_fluid[<< "0", "center", Wild >>] = << 2, 1 >>
    /\ geo.coords_fluid[<< "0", "center", Wild >>] = << 0, 6 >>
    /\ Len(geo.coords_interface[<< Wild, "wall", "end" >>]) = 2


(***************************************************************************)
(* Properties of the field extractor                                       *)
(***************************************************************************)
\* the 1-based positions of the snapshots the extraction loop has handled
\* that lie in the averaging window
HandledInWindow ==
    { k \in 1..Len(res) :
        /\ k - 1 >= start_step
        /\ \/ k <= step_i
           \/ k = step_i + 1 /\ perr # "none" }

LacksPressureOrVelocity(snap) ==
    ~HasArray(snap, "Pressure") \/ ~HasArray(snap, "Velocity")

ExtractionStarted == \E k \in DOMAIN stages : stages[k] = "extract"

\* C13: a snapshot of the averaging window that lacks Pressure or Velocity
\* is skipped without an error: the extraction goes on with the later
\* snapshots and post_process ends with the averages.
C13_MissingFieldSkipped ==
    (ExtractionStarted
       /\ \E k \in HandledInWindow : LacksPressureOrVelocity(res[k]))
      => /\ perr = "none"
         /\ ppc = "done" => \E k \in DOMAIN stages : stages[k] = "average"


\* the wall shear value of point p the claim prescribes: WSS when present,
\* Traction only when WSS is absent, zero when both are absent
ExpectedWss(snap, p) ==
    CASE "WSS" \in DOMAIN snap.arrays -> Norm(snap.arrays["WSS"][p])
      [] "WSS" \notin DOMAIN snap.arrays /\ "Traction" \in DOMAIN snap.arrays ->
           Norm(snap.arrays["Traction"][p])
      [] OTHER -> 0

LacksBoth(snap) ==
    "WSS" \notin DOMAIN snap.arrays /\ "Traction" \notin DOMAIN snap.arrays

\* the snapshots of the window whose extraction is complete, and the
\* position of snapshot k in the extracted series
ExtractedInWindow == { k \in 1..step_i : k - 1 >= start_step }
SeriesIndex(k) == IF start_step > 0 THEN k - start_step ELSE k

\* C14: the wall shear value of a snapshot is taken from WSS when WSS is
\* present, from Traction only when WSS is absent and Traction is present,
\* and is zero, with a warning, only when both are absent; the extraction
\* over the window and the mid-ring series follow the same precedence.
C14_WssPrecedence ==
    /\ \A k \in ExtractedInWindow :
         \A loc \in DOMAIN post_interface_time :
            LET pt == geo.ids_interface[loc]
                row == post_interface_time[loc]["wss"][SeriesIndex(k)]
            IN /\ Len(row) = Len(pt)
               /\ \A j \in 1..Len(pt) : row[j] = ExpectedWss(res[k], pt[j])
    /\ warnings = Cardinality({ k \in ExtractedInWindow : LacksBoth(res[k]) })
    /\ (ppc = "done" /\ perr = "none") =>
         /\ Len(wss_mid_all) = Len(res)
         /\ \A k \in 1..Len(res) :
              LET pt == geo.ids_interface[MidRing]
              IN wss_mid_all[k]
                   = [num |-> SeqSum([j \in 1..Len(pt) |->
                                        ExpectedWss(res[k], pt[j])]),
                      den |-> Len(pt)]

\* a directory whose first snapshot has Traction but no WSS and whose
\* second has neither: both are extracted and the mid-ring series is built
C14_Witness ==
    /\ ppc = "done" /\ perr = "none"
    /\ Len(res) = 2 /\ start_step = 0
    /\ ~HasArray(res[1], "WSS") /\ HasArray(res[1], "Traction")
    /\ LacksBoth(res[2])
    /\ warnings = 1
    /\ Len(geo.ids_interface[MidRing]) = 3
    /\ wss_mid_all[1].num > 0 /\ wss_mid_all[2].num = 0


\* the keys of an index dict that matched no point
EmptyKeys(ids) == { loc \in DOMAIN ids : ids[loc] = <<>> }

\* every series extracted so far for an empty key consists of empty rows
EmptyRows(post, ids) ==
    \A loc \in EmptyKeys(ids) \cap DOMAIN post :
       \A f \in DOMAIN post[loc] :
          \A k \in 1..Len(post[loc][f]) : post[loc][f][k] = <<>>

\* every average of an empty key is the empty array
EmptyAverages(data, ids) ==
    \A loc \in EmptyKeys(ids) \cap DOMAIN data :
       \A f \in DOMAIN data[loc] : data[loc][f] = <<>>

KeyErrors == { "KeyError", "IndexError" }

\* C15: a key that matches no point is recorded by get_ids with an empty
\* index sequence, and the steps that use the cached indices go through:
\* extraction appends empty rows, the averages are empty, the mid-ring
\* series is built, the spatial plots leave the key out, the time-series
\* plot draws its nan means, and none of them raises for the key.
C15_EmptyKeyHarmless ==
    /\ perr \notin KeyErrors /\ merr \notin KeyErrors
    /\ EmptyRows(post_fluid, geo.ids_fluid)
    /\ EmptyRows(post_interface_time, geo.ids_interface)
    /\ EmptyAverages(averaged.data_fluid, geo.ids_fluid)
    /\ EmptyAverages(averaged.data_interface, geo.ids_interface)
    /\ (geo.ids_interface # EmptyDict /\ MidRing \in EmptyKeys(geo.ids_interface)
          /\ ppc = "done" /\ perr = "none") =>
         /\ Len(wss_mid_all) = Len(res)
         /\ \A k \in 1..Len(res) : wss_mid_all[k] = [num |-> 0, den |-> 0]
    /\ \A i \in 1..Len(plots) : \A c \in 1..Len(plots[i].curves) :
         LET curve == plots[i].curves[c]
             empty == curve.loc \in EmptyKeys(geo.ids_fluid)
                                      \cup EmptyKeys(geo.ids_interface)
         IN IF plots[i].name[2] = "time_series"
            \* the ring mean of an empty ring is nan at every time
            THEN empty => \A t \in 1..Len(curve.wss_avg) :
                             curve.wss_avg[t] = [num |-> 0, den |-> 0]
            ELSE ~empty
    /\ (mpc \in { "plot_wss_time_series", "heartbeat", "done" }
          /\ merr = "none") =>
         \* the rings and axial lines that have points are all drawn
         \A loc \in DOMAIN geo.coords_interface :
            WildDim(loc) \in { 1, 3 } =>
               \E i \in 1..Len(plots) : \E c \in 1..Len(plots[i].curves) :
                  plots[i].curves[c].loc = loc

\* main has ended on a mesh without points at mid height: the mid ring and
\* the mid centerline point are empty keys, the mid-ring means are nan, and
\* the figures of the other keys are saved
C15_Witness ==
    /\ mpc = "done" /\ merr = "none"
    /\ ppc = "done" /\ perr = "none"
    /\ geo.ids_interface[MidRing] = <<>>
    /\ geo.ids_fluid[<< "0", "center", "mid" >>] = <<>>
    /\ averaged.data_interface[MidRing]["wss"] = <<>>
    /\ wss_mid_all[1].den = 0
    /\ Len(plots) > 1


(***************************************************************************)
(* Properties of the optional field comparison                             *)
(***************************************************************************)
\* the tolerances of the two compared fields, in units of 1e-8
FieldTolerance == [Displacement |-> 1, Velocity |-> 10]

\* 1 in units of 1e-8
Unit == 100000000

\* |test - ref| <= tol + tol * |ref| for values base + dev * 1e-8 with a
\* reference on the integer grid
WithinTolerance(test, ref, tol) ==
    Abs((test.base - ref.base) * Unit + (test.dev - ref.dev))
        <= tol * (1 + Abs(ref.base))

\* every compared field of the reference is in the test snapshot, and
\* every element of it is within the field's tolerance
FieldCriterion ==
    \A f \in (DOMAIN FieldTolerance) \cap (DOMAIN vtu.ref) :
       /\ f \in DOMAIN vtu.test
       /\ Len(vtu.test[f]) = Len(vtu.ref[f])
       /\ \A i \in 1..Len(vtu.ref[f]) :
            WithinTolerance(vtu.test[f][i], vtu.ref[f][i], FieldTolerance[f])

VtuChecked == Len(checks) = 4 /\ checks[4].name = "vtu"
VtuLoaded == VtuChecked /\ report.msg # "vtu_load"

\* C16: once both snapshot files are read, the field comparison passes
\* exactly when every field of RTOL that the reference has is also in the
\* test snapshot with every element within |test - ref| <= tol + tol*|ref|
\* for the field's own tolerance; whenever both paths are given and the
\* comparison does not pass, main returns 1.
C16_FieldComparison ==
    /\ VtuLoaded => (checks[4].ok <=> FieldCriterion)
    /\ VtuChecked /\ ~checks[4].ok => exit_code = 1
    /\ (args.vtu = "both" /\ pc = "done") =>
         IF VtuChecked /\ checks[4].ok THEN exit_code = 0 ELSE exit_code = 1

\* the comparison passes with a displacement exactly on its tolerance:
\* reference 1, test 1 + 2e-8, tolerance 1e-8 + 1e-8 * 1
C16_Witness ==
    /\ pc = "done" /\ exit_code = 0
    /\ VtuLoaded /\ checks[4].ok
    /\ "Displacement" \in DOMAIN vtu.ref
    /\ vtu.ref["Displacement"][1] = Val(1, 0)
    /\ vtu.test["Displacement"][1] = Val(1, 2)


(***************************************************************************)
(* Properties of the iteration-count check                                 *)
(***************************************************************************)
IterationsChecked == Len(checks) >= 2 /\ checks[2].name = "iterations"

\* the 0-based timesteps at which the two iteration counts differ by more
\* than the tolerance
IterationsBeyondTolerance ==
    { t \in 0..(ref_data.time_steps - 1) :
        /\ t + 1 <= Len(ref_data.iterations)
        /\ t + 1 <= Len(test_data.iterations)
        /\ Abs(test_data.iterations[t + 1] - ref_data.iterations[t + 1])
             > args.iter_tolerance }

\* C20: the iteration-count check fails if and only if the absolute
\* difference of the iteration counts is strictly above the tolerance at
\* some timestep, and its one report lists exactly the timesteps at which
\* it is: a difference equal to the tolerance is not listed, and the check
\* does not stop at the first listed timestep.
C20_IterationReportComplete ==
    IterationsChecked =>
        /\ checks[2].ok <=> IterationsBeyondTolerance = {}
        /\ ~checks[2].ok =>
             /\ report.exc = "ComparisonError"
             /\ report.msg = "iterations"
             /\ report.steps = IterationsBeyondTolerance
             /\ exit_code = 1

\* two timesteps with a difference of 3, beyond the tolerance 2, are both
\* reported
C20_Witness ==
    /\ IterationsChecked /\ ~checks[2].ok
    /\ args.iter_tolerance = 2
    /\ report.steps = { 0, 1 }
    /\ pc = "done"


(***************************************************************************)
(* Properties of the summary pipeline                                      *)
(***************************************************************************)
CsvFiles == { i \in 1..Len(written) : written[i].kind = "csv" }

\* the position (from 1) of file k among the files of the directory when
\* they are ordered by name
NameRank(k) ==
    1 + Cardinality({ j \in DOMAIN sdir :
                        LexLess(FileName(FileNumber(j)),
                                FileName(FileNumber(k))) })

\* the statistics of file k of the directory
StatisticsOf(k) == extract_results_fluid(SummarySnapshot(smesh, k, sdir[k]))

\* C17: data row i of the exported CSV, whose timestep column is i counted
\* from 0, holds the statistics of the i-th snapshot file in the
\* lexicographic order of the file names, and the CSV has exactly one data
\* row per snapshot file found.
C17_CsvRowsInNameOrder ==
    \A w \in CsvFiles :
       LET rows == written[w].content.rows
           header == written[w].content.header
       IN /\ Len(rows) = Cardinality(DOMAIN sdir)
          /\ \A k \in DOMAIN sdir :
               LET row == rows[NameRank(k)]
               IN /\ row.timestep = NameRank(k) - 1
                  /\ Len(row.cells) = Len(header) - 1
                  /\ \A j \in 1..Len(row.cells) :
                       row.cells[j] = Cell(StatisticsOf(k), header[j + 1])

\* the CSV of a directory with steady_1, steady_2 and steady_10: the row of
\* steady_10 comes second, before the row of steady_2
C17_Witness ==
    /\ spc = "done" /\ serr = "none"
    /\ CsvFiles # {}
    /\ DOMAIN sdir = { 1, 2, 3 }
    /\ \A k \in DOMAIN sdir : sdir[k] = AllArrays
    /\ smesh = PlainMesh
    /\ NameRank(3) = 2 /\ NameRank(2) = 3
    /\ \A w \in CsvFiles :
         written[w].content.rows[2].cells[1] = << Mean1(PressureOf(
             SnapshotOn(MeshPts, 3, AllArrays))) >>

\* a result after the first lacks a statistic that the first result has
LaterResultLacksField ==
    \E i \in 2..Len(all_results) :
       \E key \in DOMAIN all_results[1].val : ~HasKey(all_results[i], key)

\* C18: a snapshot other than the first that lacks a field the first
\* snapshot has does not abort the summary pipeline: the summary is
\* printed, and the time-series plot and the CSV export that were asked
\* for are written.
C18_MissingFieldNonFatal ==
    LaterResultLacksField =>
        /\ serr = "none"
        /\ spc = "done" =>
             /\ ~sargs.no_plot =>
                  \E i \in 1..Len(written) : written[i].kind = "time_series"
             /\ sargs.csv => CsvFiles # {}

\* C19: without -o the plots and the CSV are written to <output_dir>/post,
\* output_dir being the positional input directory.
C19_DefaultOutputDirectory ==
    ~sargs.output_given =>
        \A i \in 1..Len(written) :
           SubSeq(written[i].path, 1, Len(written[i].path) - 1)
             = Join(InputDir, "post")


(***************************************************************************)
(* Properties of the error-norm check                                      *)
(***************************************************************************)
NormsChecked == Len(checks) >= 3 /\ checks[3].name = "error_norms"

\* the pairs <<field, 0-based timestep>> of the fields of both logs at
\* which the final norms differ by more than the tolerance
NormsBeyondTolerance ==
    { <<f, t>> \in ComparedFields(ref_data, test_data)
                     \X (0..(ref_data.time_steps - 1)) :
        /\ t + 1 <= Len(ref_data.errors[f])
        /\ t + 1 <= Len(test_data.errors[f])
        /\ NormExceeds(ref_data.errors[f][t + 1], test_data.errors[f][t + 1],
                       args.error_tolerance) }

\* C21: the error-norm check fails if and only if the final norms of some
\* compared field differ at some timestep by more than the tolerance times
\* the reference norm (by more than the tolerance itself when the reference
\* norm is not positive), and its one report lists exactly these pairs.
C21_NormReportComplete ==
    NormsChecked =>
        /\ checks[3].ok <=> NormsBeyondTolerance = {}
        /\ ~checks[3].ok =>
             /\ report.exc = "ComparisonError"
             /\ report.msg = "error_norms"
             /\ report.pairs = NormsBeyondTolerance
             /\ exit_code = 1

(***************************************************************************)
(* Properties of extract_convergence_data                                  *)
(***************************************************************************)
\* both extractions returned: main went on to the summary
ExtractionSucceeded ==
    /\ pc \notin {"load_ref", "load_test", "extract"}
    /\ pc = "done" => (checks # <<>> \/ report.msg = "print_summary")

\* the list-valued entries of a document that record at least one timestep
RecordingEntries(file) ==
    { k \in ListEntries(file) : Len(file.errors[k].val.steps) >= 1 }

FinalNorm(step) == step.res[Len(step.res)]

\* the convergence data cd holds the final norms of every list-valued field
\* of the document and the sequence lengths of its first recording field
ExtractedFrom(cd, file) ==
    /\ DOMAIN cd.errors = { file.errors[k].name : k \in ListEntries(file) }
    /\ \A k \in ListEntries(file) :
          LET steps == file.errors[k].val.steps
              stored == cd.errors[file.errors[k].name]
          IN /\ Len(stored) = Len(steps)
             /\ \A t \in 1..Len(steps) : stored[t] = FinalNorm(steps[t])
    /\ IF RecordingEntries(file) = {}
       THEN cd.iterations = <<>>
       ELSE LET first == file.errors[SetMin(RecordingEntries(file))].val.steps
            IN cd.iterations = [t \in 1..Len(first) |-> Len(first[t].res)]

\* C22: after a successful extraction the stored final norm of every field
\* and timestep is the last residual of that timestep, and the iteration
\* counts are the sequence lengths of the first list-valued field, in
\* document order, that records a timestep: no later field changes them.
C22_ExtractedData ==
    ExtractionSucceeded =>
        /\ ExtractedFrom(ref_data, ref_json)
        /\ ExtractedFrom(test_data, test_json)

\* the second field of the test log iterates four times at the first
\* timestep, the first field once: the count stored is the first field's
C22_Witness ==
    /\ ExtractionSucceeded
    /\ Len(test_json.errors) = 2
    /\ ListEntries(test_json) = {1, 2}
    /\ \A k \in {1, 2} : Len(test_json.errors[k].val.steps) >= 1
    /\ Len(test_json.errors[1].val.steps[1].res) = 1
    /\ Len(test_json.errors[2].val.steps[1].res) = 4
    /\ test_data.iterations[1] = 1
    /\ test_data.errors[test_json.errors[2].name][1] = BaseNorm

(***************************************************************************)
(* Properties of the index groups of the pulsatile pipeline                *)
(***************************************************************************)
\* get_ids has returned for both domains
GeometryComputed ==
    ppc \in {"extract", "wss_mid"} \/ (ppc = "done" /\ perr \notin
        {"RuntimeError", "AssertionError"} /\ stages # << "read" >>)

\* the index groups and coordinates get_ids yields on one point array
GeometryOf(points) ==
    LET fluid == get_ids(points, "fluid")
        interface == get_ids(points, "interface")
    IN [ids_fluid |-> fluid.ids, coords_fluid |-> fluid.coords,
        ids_interface |-> interface.ids,
        coords_interface |-> interface.coords]

\* the rows extracted so far for one field are the values of the window's
\* snapshots at the ids of the key, snapshot by snapshot
RowsIndexedBy(post, ids, f) ==
    \A loc \in DOMAIN post :
       \A k \in ExtractedInWindow :
          post[loc][f][SeriesIndex(k)]
            = [j \in 1..Len(ids[loc]) |-> ValueAt(res[k], f, ids[loc][j])]

\* C23: once get_ids has returned for both domains, the index groups and
\* the coordinate cache are, at every later step of the run (extraction of
\* each snapshot, averaging, mid-ring series, return), the ones get_ids
\* yields on the points of snapshot 0; get_ids is entered once, and every
\* snapshot of the window is indexed with these groups.
C23_GeometryFixed ==
    /\ Cardinality({ k \in DOMAIN stages : stages[k] = "get_ids" }) <= 1
    /\ GeometryComputed =>
         /\ geo = GeometryOf(res[1].points)
         /\ Cardinality({ k \in DOMAIN stages : stages[k] = "get_ids" }) = 1
         /\ RowsIndexedBy(post_fluid, geo.ids_fluid, "pressure")
         /\ RowsIndexedBy(post_fluid, geo.ids_fluid, "velocity")
         /\ RowsIndexedBy(post_interface_time, geo.ids_interface, "pressure")

\* a run over two snapshots on different point arrays has returned: the
\* groups are those of snapshot 0 and differ from those of snapshot 1
C23_Witness ==
    /\ ppc = "done" /\ perr = "none"
    /\ Len(res) = 2 /\ start_step = 0
    /\ res[1].points # res[2].points
    /\ geo = GeometryOf(res[1].points)
    /\ geo # GeometryOf(res[2].points)
    /\ Len(post_fluid[<< "0", "center", Wild >>]["pressure"]) = 2

(***************************************************************************)
(* Properties of the keys of get_ids                                       *)
(***************************************************************************)
\* the bucket names of the three axes of a domain
BucketNames(domain) ==
    IF domain = "fluid"
    THEN << {"0"}, {"center"}, {"start", "mid", "end"} >>
    ELSE << {"0", "3", "6", "9"}, {"wall"}, {"start", "mid", "end"} >>

WildSlots(loc) == { i \in 1..3 : loc[i] = Wild }

\* the keys of an index dict of a domain: at most one wildcard each, the
\* four keys of every bucket combination among them, n keys in all
KeysRegistered(ids, domain, n) ==
    /\ \A loc \in DOMAIN ids : Cardinality(WildSlots(loc)) <= 1
    /\ \A c \in BucketNames(domain)[1], r \in BucketNames(domain)[2],
          a \in BucketNames(domain)[3] :
          { <<c, r, a>>, <<Wild, r, a>>, <<c, Wild, a>>, <<c, r, Wild>> }
             \subseteq DOMAIN ids
    /\ Cardinality(DOMAIN ids) = n

\* C24: the index dict get_ids returns for domain fluid has 10 keys, the
\* one for domain interface 31; every key has at most one wildcard slot and
\* the four keys of every bucket combination are registered, whether or
\* not they matched a point.
C24_RegisteredKeys ==
    /\ geo.ids_fluid # EmptyDict
         => KeysRegistered(geo.ids_fluid, "fluid", 10)
    /\ geo.ids_interface # EmptyDict
         => KeysRegistered(geo.ids_interface, "interface", 31)

\* both dicts are returned; the key of the mid ring at 9 o'clock is
\* registered although no point matched it
C24_Witness ==
    /\ ppc = "extract"
    /\ Cardinality(DOMAIN geo.ids_fluid) = 10
    /\ Cardinality(DOMAIN geo.ids_interface) = 31
    /\ geo.ids_interface[<< "9", "wall", "mid" >>] = <<>>
    /\ geo.ids_interface[<< "9", Wild, "mid" >>] = <<>>

(***************************************************************************)
(* Properties of the mid-ring series                                       *)
(***************************************************************************)
\* the number of snapshots start_step <= i <= last index
WindowLength == Len(res) - (IF start_step > 0 THEN start_step ELSE 0)

\* the mean wall shear value of one snapshot over the mid ring
RingMean(snap) ==
    LET pt == geo.ids_interface[MidRing]
    IN Mean1([j \in 1..Len(pt) |-> ValueAt(snap, "wss", pt[j])])

\* C25: when post_process has returned, the mid-ring series has one entry
\* per snapshot, entry k being the ring mean of the k-th file, for every
\* start_step; the windowed interface series have one row per snapshot of
\* the window only, and the heartbeat overlay counts its beats on the full
\* series.
C25_MidRingAllSnapshots ==
    (ppc = "done" /\ perr = "none") =>
        /\ Len(wss_mid_all) = Len(res)
        /\ \A k \in 1..Len(res) : wss_mid_all[k] = RingMean(res[k])
        /\ \A loc \in DOMAIN averaged.data_interface_time :
              \A f \in {"pressure", "wss"} :
                 Len(averaged.data_interface_time[loc][f]) = WindowLength
        /\ (overlay.called /\ overlay.steps_per_beat >= 1) =>
              overlay.n_beats = FloorDiv(Len(res), overlay.steps_per_beat)

\* three snapshots with start_step 2: one row in the window, three entries
\* in the mid-ring series, three beats of one step
C25_Witness ==
    /\ mpc = "done" /\ merr = "none"
    /\ Len(res) = 3 /\ start_step = 2
    /\ Len(wss_mid_all) = 3
    /\ wss_mid_all[1] # wss_mid_all[3]
    /\ Len(averaged.data_interface_time[MidRing]["wss"]) = 1
    /\ overlay.called /\ overlay.steps_per_beat = 1 /\ overlay.n_beats = 3

(***************************************************************************)
(* Snapshots held by the pulsatile pipeline                                *)
(***************************************************************************)
\* the mesh snapshots post_process holds while it runs: the list read_res
\* returned, a local of post_process until it returns
SnapshotsHeld == IF ppc = "done" THEN 0 ELSE Len(res)

\* C26: at every point of a run of post_process at most one mesh snapshot
\* is held; a snapshot is released before the next one is read.
C26_OneSnapshotHeld == SnapshotsHeld <= 1

(***************************************************************************)
(* Properties of the coordinate cache                                      *)
(***************************************************************************)
\* the cylindrical coordinate of a point along axis i
CraOf(pt, i) == xyz2cra(pt)[i]

\* the cache has an entry for exactly the keys with a wildcard slot that
\* matched a point, and the entry of a key lists the coordinates of its
\* ids along the wildcard axis, position by position
CacheOfIds(points, ids, coords) ==
    /\ DOMAIN coords
         = { loc \in DOMAIN ids : WildSlots(loc) # {} /\ Len(ids[loc]) >= 1 }
    /\ \A loc \in DOMAIN coords :
          /\ Len(coords[loc]) = Len(ids[loc])
          /\ \A j \in 1..Len(ids[loc]) :
                \A i \in WildSlots(loc) :
                   coords[loc][j] = CraOf(points[ids[loc][j]], i)

\* C27: after get_ids has returned for a domain, the coordinate cache has
\* an entry for exactly the keys with a wildcard that matched at least one
\* point, of the length of the key's index sequence, and its j-th element
\* is the coordinate of point ids[j] along the wildcard axis.
C27_CacheMatchesIds ==
    /\ geo.ids_fluid # EmptyDict
         => CacheOfIds(res[1].points, geo.ids_fluid, geo.coords_fluid)
    /\ geo.ids_interface # EmptyDict
         => CacheOfIds(res[1].points, geo.ids_interface,
                       geo.coords_interface)

\* on the mesh without nodes at mid height: the wildcard key of the mid
\* section has no entry, a matched key without wildcard has none either,
\* and the centerline entry follows the ids sorted by axial coordinate
C27_Witness ==
    /\ ppc = "extract"
    /\ geo.ids_fluid[<< Wild, "center", "mid" >>] = <<>>
    /\ << Wild, "center", "mid" >> \notin DOMAIN geo.coords_fluid
    /\ geo.ids_fluid[<< "0", "center", "start" >>] # <<>>
    /\ << "0", "center", "start" >> \notin DOMAIN geo.coords_fluid
    /\ geo.ids_fluid[<< "0", "center", Wild >>] = << 2, 1 >>
    /\ geo.coords_fluid[<< "0", "center", Wild >>] = << 0, 6 >>
    /\ Len(geo.coords_interface[<< Wild, "wall", "end" >>]) = 2

(***************************************************************************)
(* Properties of the mid-section wall shear stress                         *)
(***************************************************************************)
\* the snapshot read from file k of the directory
FileSnapshot(k) == SummarySnapshot(smesh, k, sdir[k])

\* the points strictly within 5% of the axial extent around mid height:
\* |z - (z_min + z_max) / 2| < 0.05 * (z_max - z_min), times 20
BandPoints(points) ==
    LET z_min == SetMin({ points[p].z : p \in DOMAIN points })
        z_max == SetMax({ points[p].z : p \in DOMAIN points })
    IN { p \in DOMAIN points :
           20 * Abs(2 * points[p].z - (z_min + z_max)) < 2 * (z_max - z_min) }

WssMagnitude(snap, p) == Norm(snap.arrays["WSS"][p])

RECURSIVE MagnitudeSum(_, _)
MagnitudeSum(snap, S) ==
    IF S = {} THEN 0
    ELSE LET p == CHOOSE x \in S : TRUE
         IN WssMagnitude(snap, p) + MagnitudeSum(snap, S \ {p})

\* the mean of the WSS magnitude over a set of points; den = 0 is nan
MagnitudeMean(snap, S) ==
    [num |-> MagnitudeSum(snap, S), den |-> Cardinality(S)]

\* the points of the band whose magnitude is above the threshold 1e-10;
\* magnitudes are integers, so these are the points of nonzero magnitude
BandWall(snap) ==
    { p \in BandPoints(snap.points) : WssMagnitude(snap, p) >= 1 }

\* C28: the result of every file read that has a WSS array holds as
\* mid-section mean the mean WSS magnitude over the points of the band
\* whose magnitude exceeds the threshold, and over all points of the band
\* when none does; a file without WSS array has no mid-section mean.
C28_MidSectionMean ==
    \A i \in 1..Len(all_results) :
       LET snap == FileSnapshot(sfiles[i])
       IN IF HasArray(snap, "WSS")
          THEN /\ HasKey(all_results[i], "wss_mid_mean")
               /\ all_results[i].val["wss_mid_mean"]
                    = IF BandWall(snap) # {}
                      THEN MagnitudeMean(snap, BandWall(snap))
                      ELSE MagnitudeMean(snap, BandPoints(snap.points))
          ELSE ~HasKey(all_results[i], "wss_mid_mean")

\* a band of four points of which one is an interior node: the mean is
\* over the three wall nodes
C28_Witness ==
    /\ Len(all_results) >= 1
    /\ HasKey(all_results[1], "wss_mid_mean")
    /\ Cardinality(BandPoints(smesh.points)) = 4
    /\ Cardinality(BandWall(FileSnapshot(sfiles[1]))) = 3
    /\ all_results[1].val["wss_mid_mean"].den = 3

(***************************************************************************)
(* The summary against the checks                                          *)
(***************************************************************************)
\* the timesteps the iteration-count check reported
IterationFailures ==
    IF report.msg = "iterations" /\ report.exc = "ComparisonError"
    THEN report.steps ELSE {}

\* C29: every mark the summary prints agrees with the check it announces:
\* the line of a timestep is marked as failing exactly when the
\* iteration-count check reports the timestep, and the line of a field and
\* timestep exactly when the error-norm check reports the pair, for every
\* value of the two tolerance options.
C29_SummaryAgreesWithChecks ==
    /\ IterationsChecked =>
         \A k \in 1..Len(summary.iter_lines) :
            summary.iter_lines[k].ok
              <=> summary.iter_lines[k].t \notin IterationFailures
    /\ (NormsChecked /\ NormCheckCompleted) =>
         \A k \in 1..Len(summary.norm_lines) :
            ~summary.norm_lines[k].na =>
               (summary.norm_lines[k].ok
                  <=> << summary.norm_lines[k].field, summary.norm_lines[k].t >>
                        \notin NormFailures)

(***************************************************************************)
(* Logs with different sets of fields                                      *)
(***************************************************************************)
\* the fields recorded by both logs
CommonFields == (DOMAIN ref_data.errors) \cap (DOMAIN test_data.errors)

\* C30: the error-norm check prints its warning exactly when the two logs
\* record different sets of fields, and compares the fields of both logs
\* only: every difference it computes and every pair it reports belongs to
\* a common field, and when it fails, it fails on a common field (a pair
\* beyond the tolerance, or a norm list shorter than the timestep count),
\* never on a field that only one log records.
C30_CommonFieldsOnly ==
    NormsChecked =>
        /\ field_warning <=> DOMAIN ref_data.errors # DOMAIN test_data.errors
        /\ \A e \in norm_evals : e.field \in CommonFields
        /\ ref_data.time_steps >= 1 =>
             \A f \in CommonFields :
                (Len(ref_data.errors[f]) >= 1 /\ Len(test_data.errors[f]) >= 1)
                => \E e \in norm_evals : e.field = f
        /\ ~checks[3].ok =>
             /\ report.msg = "error_norms"
             /\ \A pair \in report.pairs : pair[1] \in CommonFields
             /\ report.exc = "ComparisonError" => report.pairs # {}
             /\ report.exc # "ComparisonError" =>
                  \E f \in CommonFields :
                     \/ Len(ref_data.errors[f]) < ref_data.time_steps
                     \/ Len(test_data.errors[f]) < ref_data.time_steps

\* the reference records solid and fluid, the test log solid only: the
\* warning is printed, one field is compared, and main returns 0
C30_Witness ==
    /\ pc = "done" /\ exit_code = 0
    /\ DOMAIN ref_data.errors = {"solid", "fluid"}
    /\ DOMAIN test_data.errors = {"solid"}
    /\ ref_data.time_steps = 2
    /\ field_warning
    /\ { e.field : e \in norm_evals } = {"solid"}
    /\ checks[3].ok

====
